---- MODULE Spec2Model ----
(***************************************************************************)
(* A model of the biosignal firmware sketch_sep13a.ino: the sample         *)
(* scheduler loop(), the ECG path (ECGFilter, Getpeak, the RR interval     *)
(* policy) and the EEG path (Notch, EEGFilter, the block buffer,           *)
(* processFFT, calculateBandpower, smoothBandpower).                       *)
(*                                                                         *)
(* Number representation.  The sketch computes in float.  The model        *)
(* computes in integers:                                                   *)
(*   - a sample or filter value v stands for v / Q of an ADC count;        *)
(*   - a filter coefficient is the integer made of the eight decimals the  *)
(*     source writes (0.96508099 is 96508099) and a product is rounded     *)
(*     down to the value resolution, which stands for float rounding;      *)
(*   - mean_buffer holds the mean times DATA_LENGTH (the sum itself) and   *)
(*     standard_deviation_buffer holds the radicand R, the deviation       *)
(*     being sqrt(R / DATA_LENGTH) / DATA_LENGTH, so that the comparison   *)
(*     of Getpeak is decided exactly, without a square root;               *)
(*   - a 32-bit unsigned long is the pair <<high, low>> of its 16-bit      *)
(*     halves, with all arithmetic modulo 2^32.                            *)
(***************************************************************************)
EXTENDS Integers, Sequences, FiniteSets

(***************************************************************************)
(* Program constants (sketch_sep13a.ino).  SAMPLE_RATE is #defined twice;  *)
(* the second definition (125) is the one in force for all the code.       *)
(* Band edges are in tenths of a hertz, SMOOTHING_FACTOR in hundredths.    *)
(***************************************************************************)
SAMPLE_RATE == 125
FFT_SIZE == 256
DATA_LENGTH == 16
DELTA_LOW == 5
DELTA_HIGH == 40
THETA_LOW == 40
THETA_HIGH == 80
ALPHA_LOW == 80
ALPHA_HIGH == 130
BETA_LOW == 130
BETA_HIGH == 300
GAMMA_LOW == 300
GAMMA_HIGH == 450
SMOOTHING_FACTOR == 63
RR_MIN_MS == 400
RR_MAX_MS == 2000
SIGNAL_DIVISOR == 512

\* The tick period in microseconds: 1000000 / SAMPLE_RATE, an integer division.
TickPeriod == 1000000 \div SAMPLE_RATE

(***************************************************************************)
(* unsigned long / long: 32 bits as two 16-bit halves.                     *)
(***************************************************************************)
Half == 256 * 256

U32(n) == <<n \div Half, n % Half>>

\* A number of milliseconds as a 32-bit count of microseconds (ms < 2^16).
MsToUs(ms) ==
    LET lo == (ms % Half) * 1000
        hi == (ms \div Half) * 1000 + lo \div Half
    IN  <<hi % Half, lo % Half>>

Add32(a, b) ==
    LET lo == a[2] + b[2]
        hi == a[1] + b[1] + lo \div Half
    IN  <<hi % Half, lo % Half>>

Sub32(a, b) ==
    LET lo == a[2] - b[2]
        hi == a[1] - b[1] + lo \div Half
    IN  <<hi % Half, lo % Half>>

\* the difference taken as 0 when the later reading is the smaller one
ElapsedClamped(now, then) ==
    IF now[1] > then[1] \/ (now[1] = then[1] /\ now[2] >= then[2])
    THEN Sub32(now, then) ELSE <<0, 0>>

\* now - then of two unsigned long readings of micros()
Elapsed(now, then) == Sub32(now, then)

\* unsigned comparison a >= b
Geq32(a, b) == a[1] > b[1] \/ (a[1] = b[1] /\ a[2] >= b[2])

\* the sign of a 32-bit pattern read as long (two's complement)
IsNegative32(a) == a[1] >= Half \div 2

(***************************************************************************)
(* Values and float products.                                              *)
(***************************************************************************)
\* value units per ADC count
Q == 4 * 4

CoefSplit == 100 * 100

\* coefficient c (eight decimals) times value v, rounded down to a value:
\* floor(c * v / 10^8), computed by halves so as not to leave 32 bits.
Mul(c, v) ==
    LET ch == c \div CoefSplit
        cl == c % CoefSplit
        vh == v \div CoefSplit
        vl == v % CoefSplit
    IN  ch * vh + (ch * vl + cl * vh + (cl * vl) \div CoefSplit) \div CoefSplit

(***************************************************************************)
(* Biquad sections.  A section is <<b0, b1, b2, a1, a2>>, its state         *)
(* <<z1, z2>>.  The source writes each section out; all have the shape     *)
(*   x = in - a1*z1 - a2*z2;  out = b0*x + b1*z1 + b2*z2;  z2 = z1; z1 = x *)
(***************************************************************************)
NotchSections ==
    << <<96508099, -156202714, 96508099, -156858163, 96424138>>,
       <<100000000, -161854514, 100000000, -161100358, 96592171>> >>

EEGSections ==
    << <<5644846, 11289692, 5644846, -122465158, 45044543>> >>

ECGSections ==
    << <<28064917, 56129834, 28064917, 70682283, 15621030>>,
       <<100000000, 200000000, 100000000, 95028224, 54073140>>,
       <<100000000, -200000000, 100000000, -195360385, 95423412>>,
       <<100000000, -200000000, 100000000, -198048558, 98111344>> >>

ZeroState(sections) == [j \in 1..Len(sections) |-> <<0, 0>>]

\* One section: the value x that becomes z1, and the output.
SectionX(c, z, in) == in - Mul(c[4], z[1]) - Mul(c[5], z[2])

\* the output taken as b0 * x + z1
SectionOutTransposed(c, z, in) == Mul(c[1], SectionX(c, z, in)) + z[1]

SectionOut(c, z, in) ==
    Mul(c[1], SectionX(c, z, in)) + Mul(c[2], z[1]) + Mul(c[3], z[2])

SectionNext(c, z, in) == <<SectionX(c, z, in), z[1]>>

\* every section given the input of the chain
ChainInUnthreaded(sections, zs, in, j) == in

\* The input of section j of a chain: the chain's input for the first
\* section, the output of section j-1 for the others.
RECURSIVE ChainIn(_, _, _, _)
ChainIn(sections, zs, in, j) ==
    IF j = 1 THEN in
    ELSE SectionOut(sections[j - 1], zs[j - 1],
                    ChainIn(sections, zs, in, j - 1))

ChainOut(sections, zs, in) ==
    SectionOut(sections[Len(sections)], zs[Len(sections)],
               ChainIn(sections, zs, in, Len(sections)))

ChainNext(sections, zs, in) ==
    [j \in 1..Len(sections) |->
        SectionNext(sections[j], zs[j], ChainIn(sections, zs, in, j))]

(***************************************************************************)
(* Getpeak.  The three static buffers are functions on 0..DATA_LENGTH-1.   *)
(***************************************************************************)
Slots == 0..(DATA_LENGTH - 1)

\* (DATA_LENGTH/2), the integer the threshold multiplies the deviation by.
PeakMultiplier == DATA_LENGTH \div 2

\* the comparison with >= in place of >
IsPeakNotStrict(new_sample, m, r) ==
    LET a == DATA_LENGTH * new_sample - m
        f == (PeakMultiplier * PeakMultiplier) \div DATA_LENGTH
    IN  IF r >= 0 THEN a >= 0 /\ a * a >= f * r
        ELSE a >= 0 \/ a * a < f * (0 - r)

\* new_sample - mean > (DATA_LENGTH/2) * deviation, with mean = m / L and
\* deviation = sqrt(r / L) / L:  L*new - m > (L/2) * sqrt(r / L), decided by
\* squaring (the right side is never negative).  L divides (L/2)^2.
\* A negative r stands for a negative deviation (only an out-of-bounds store
\* can leave one in the buffer): the right side is then negative.
IsPeak(new_sample, m, r) ==
    LET a == DATA_LENGTH * new_sample - m
        f == (PeakMultiplier * PeakMultiplier) \div DATA_LENGTH
    IN  IF r >= 0 THEN a > 0 /\ a * a > f * r
        ELSE a >= 0 \/ a * a < f * (0 - r)

\* the sample stored as it is on every call
StoredSampleAsRead(new_sample, old, pk) == new_sample

\* the value stored at the cursor
StoredSample(new_sample, old, pk) ==
    IF pk THEN new_sample + old ELSE new_sample

\* sum += data_buffer[(data_index + i) % DATA_LENGTH], i = 0 .. DATA_LENGTH-1
RECURSIVE SumFrom(_, _, _)
SumFrom(data, idx, i) ==
    IF i = DATA_LENGTH THEN 0
    ELSE data[(idx + i) % DATA_LENGTH] + SumFrom(data, idx, i + 1)

\* the sum without the slot at the cursor
MeanOfOthers(data, idx) == SumFrom(data, idx, 1)

\* mean = sum / DATA_LENGTH, held as its numerator over DATA_LENGTH
MeanOf(data, idx) == SumFrom(data, idx, 0)

\* standard_deviation += pow(data_buffer[i % DATA_LENGTH] - mean, 2),
\* held as the sum of (L*d - sum)^2; sqrt(.../DATA_LENGTH) is left implicit.
RECURSIVE DeviationFrom(_, _, _)
DeviationFrom(data, m, i) ==
    IF i = DATA_LENGTH THEN 0
    ELSE LET d == DATA_LENGTH * data[i % DATA_LENGTH] - m
         IN  d * d + DeviationFrom(data, m, i + 1)

DeviationOf(data, m) == DeviationFrom(data, m, 0)

\* the cursor advanced without the modulo
NextIndexUnwrapped(idx) == idx + 1

NextIndex(idx) == (idx + 1) % DATA_LENGTH

\* the statistics stored at the slot the cursor moves to
GetpeakAhead(d, new_sample) ==
    LET c == d.index
        pk == IsPeak(new_sample, d.mean[c], d.sd[c])
        data1 == [d.data EXCEPT ![c] = StoredSample(new_sample, d.data[c], pk)]
        mean1 == MeanOf(data1, c)
    IN  [index |-> NextIndex(c),
         peak  |-> pk,
         data  |-> data1,
         mean  |-> [d.mean EXCEPT ![NextIndex(c)] = mean1],
         sd    |-> [d.sd EXCEPT ![NextIndex(c)] = DeviationOf(data1, mean1)]]

\* One call of Getpeak on a detector d = [index, peak, data, mean, sd]:
\* classify, store, recompute the mean and the deviation, advance.
Getpeak(d, new_sample) ==
    LET c == d.index
        pk == IsPeak(new_sample, d.mean[c], d.sd[c])
        data1 == [d.data EXCEPT ![c] = StoredSample(new_sample, d.data[c], pk)]
        mean1 == MeanOf(data1, c)
    IN  [index |-> NextIndex(c),
         peak  |-> pk,
         data  |-> data1,
         mean  |-> [d.mean EXCEPT ![c] = mean1],
         sd    |-> [d.sd EXCEPT ![c] = DeviationOf(data1, mean1)]]

(***************************************************************************)
(* The RR interval policy of loop().                                       *)
(***************************************************************************)
\* rrIntervalMs >= 400 && rrIntervalMs <= 2000, rrIntervalMs being the
\* interval in microseconds / 1000.0: no float lies between a whole number
\* of microseconds and the bound, so the test is on the microseconds.
\* the range with > 400 in place of >= 400
RRInRangeOpenBelow(interval) ==
    /\ ~Geq32(MsToUs(RR_MIN_MS), interval)
    /\ Geq32(MsToUs(RR_MAX_MS), interval)

RRInRange(interval) ==
    /\ Geq32(interval, MsToUs(RR_MIN_MS))
    /\ Geq32(MsToUs(RR_MAX_MS), interval)

\* Serial.print(rrIntervalMs): two decimals, rounded; in hundredths of a ms.
\* Only applied to intervals in range, which fit a signed 32-bit integer.
PrintedMs(interval) == (interval[1] * Half + interval[2] + 5) \div 10

(***************************************************************************)
(* calculateBandpower and smoothBandpower.  A bin resolution is the pair   *)
(* <<rate, size>> standing for rate / size hertz.                          *)
(***************************************************************************)
Bands == {"delta", "theta", "alpha", "beta", "gamma"}
Fields == Bands \cup {"total"}

ZeroPowers == [f \in Fields |-> 0]

\* freq >= edge and freq < edge, freq = i * binResolution, edge in tenths
AtLeast(i, res, edge) == 10 * i * res[1] >= edge * res[2]

\* freq <= edge in place of freq < edge
BelowOrAt(i, res, edge) == 10 * i * res[1] <= edge * res[2]

Below(i, res, edge) == 10 * i * res[1] < edge * res[2]

\* the if / else-if chain
BandOf(i, res) ==
    IF AtLeast(i, res, DELTA_LOW) /\ Below(i, res, DELTA_HIGH) THEN "delta"
    ELSE IF AtLeast(i, res, THETA_LOW) /\ Below(i, res, THETA_HIGH) THEN "theta"
    ELSE IF AtLeast(i, res, ALPHA_LOW) /\ Below(i, res, ALPHA_HIGH) THEN "alpha"
    ELSE IF AtLeast(i, res, BETA_LOW) /\ Below(i, res, BETA_HIGH) THEN "beta"
    ELSE IF AtLeast(i, res, GAMMA_LOW) /\ Below(i, res, GAMMA_HIGH) THEN "gamma"
    ELSE "none"

FirstBin == 1

\* the loop body with total += power moved into the band branches
AddBinTotalOfBands(results, spectrum, res, i) ==
    [f \in Fields |->
        IF f = BandOf(i, res) \/ (f = "total" /\ BandOf(i, res) # "none")
        THEN results[f] + spectrum[i]
        ELSE results[f]]

\* one pass of the for loop body on bin i
AddBin(results, spectrum, res, i) ==
    [f \in Fields |->
        IF f = "total" \/ f = BandOf(i, res)
        THEN results[f] + spectrum[i]
        ELSE results[f]]

\* The for loop over the bins lo .. hi: the loop body on each bin, the
\* sums taken by halves (the order of an integer sum does not matter, and a
\* chain as long as the loop is too deep to evaluate).
RECURSIVE BandpowerBetween(_, _, _, _)
BandpowerBetween(spectrum, res, lo, hi) ==
    IF lo > hi THEN ZeroPowers
    ELSE IF lo = hi THEN AddBin(ZeroPowers, spectrum, res, lo)
    ELSE LET mid == (lo + hi) \div 2
             left == BandpowerBetween(spectrum, res, lo, mid)
             right == BandpowerBetween(spectrum, res, mid + 1, hi)
         IN  [f \in Fields |-> left[f] + right[f]]

\* for (uint16_t i = 1; i < halfSize; i++)
calculateBandpower(spectrum, res, halfSize) ==
    BandpowerBetween(spectrum, res, FirstBin, halfSize - 1)

\* Smoothed values are held in units of 1 / SmoothUnit of a raw power.
SmoothUnit == 100 * 100

\* The float assignment rounds the sum to the nearest value it can hold:
\* a number of hundredths of a unit to the nearest unit.
Nearest(hundredths) == (hundredths + 50) \div 100

\* the two weights exchanged
SmoothFieldSwapped(raw, prev) ==
    Nearest((100 - SMOOTHING_FACTOR) * raw * SmoothUnit + SMOOTHING_FACTOR * prev)

\* the previous value kept whole: raw weighted, previous not
SmoothFieldUndamped(raw, prev) ==
    Nearest(SMOOTHING_FACTOR * raw * SmoothUnit + 100 * prev)

\* the weighted previous value taken away in place of added
SmoothFieldDifference(raw, prev) ==
    Nearest(SMOOTHING_FACTOR * raw * SmoothUnit - (100 - SMOOTHING_FACTOR) * prev)

SmoothField(raw, prev) ==
    Nearest(SMOOTHING_FACTOR * raw * SmoothUnit + (100 - SMOOTHING_FACTOR) * prev)

smoothBandpower(raw, smoothed) ==
    [f \in Fields |-> SmoothField(raw[f], smoothed[f])]

(***************************************************************************)
(* simpleFFT and processFFT.                                               *)
(*                                                                         *)
(* The butterflies multiply by cos and sin of irrational angles; the model *)
(* does not compute them.  The transform of an all-zero block is all zero  *)
(* (every product and sum of zeros is zero); the transform of any other    *)
(* block is one of a family of spectra the specification supplies, each a  *)
(* function from the bin 0..FFT_SIZE-1 to <<real, imaginary>> with the     *)
(* conjugate symmetry of a real input.                                     *)
(***************************************************************************)
Bins == 0..(FFT_SIZE - 1)
HalfBins == 0..(FFT_SIZE \div 2 - 1)

ZeroSpectrum == [b \in Bins |-> <<0, 0>>]

\* the spectrum with <<re, im>> at bin t[1] (and its mirror), zero elsewhere
Tone(t) ==
    [b \in Bins |->
        IF b = t[1] THEN <<t[2], t[3]>>
        ELSE IF b = FFT_SIZE - t[1] THEN <<t[2], 0 - t[3]>>
        ELSE <<0, 0>>]

IsZeroBlock(block) == \A j \in Bins : block[j] = 0

simpleFFT(block, tones) ==
    IF IsZeroBlock(block) THEN {ZeroSpectrum} ELSE {Tone(t) : t \in tones}

RECURSIVE Log2(_)
Log2(n) == IF n < 2 THEN 0 ELSE 1 + Log2(n \div 2)

RECURSIVE Pow2(_)
Pow2(n) == IF n = 0 THEN 1 ELSE 2 * Pow2(n - 1)

\* The bit-reverse permutation of simpleFFT.  for (k = 0; k < 8; k++)
\* j = (j << 1) | ((i >> k) & 1): the bits of i, lowest first, shifted into
\* j from below.
REVERSED_BITS == 8

RECURSIVE ReversedFrom(_, _, _)
ReversedFrom(i, j, k) ==
    IF k = REVERSED_BITS THEN j
    ELSE ReversedFrom(i, 2 * j + ((i \div Pow2(k)) % 2), k + 1)

Reversed(i) == ReversedFrom(i, 0, 0)

\* the swap made whenever the two indices differ
SwapDueEitherWay(i, j) == i # j

\* if (i < j)
SwapDue(i, j) == i < j

\* the two floats of slot i exchanged with the two floats of slot j
Swapped(block, i, j) ==
    [block EXCEPT ![2 * i] = block[2 * j], ![2 * j] = block[2 * i],
                  ![2 * i + 1] = block[2 * j + 1],
                  ![2 * j + 1] = block[2 * i + 1]]

\* "Copy to output": output[2*i] and output[2*i+1] for i = 0 .. n-1, that is
\* the stores output[0] .. output[2*n-1].
LastStore(n) == 2 * (n - 1) + 1
Stored(spectrum, k) == spectrum[k \div 2][1 + (k % 2)]

\* powerSpectrum[i] = real * real + imag * imag, read from fftOutputBuffer
PowerOf(output) ==
    [i \in HalfBins |->
        output[2 * i] * output[2 * i] + output[2 * i + 1] * output[2 * i + 1]]

\* (float)SAMPLE_RATE / FFT_SIZE
BinResolution == <<SAMPLE_RATE, FFT_SIZE>>

\* The printed ratio ((beta/(total+EPS))*100) / (alpha/(total+EPS)) * 100.
\* total + EPS is positive, so for alpha # 0 it cancels and the value is
\* beta / alpha times `factor`; alpha = 0 divides by zero.
RatioOf(s) ==
    [kind   |-> IF s["alpha"] # 0 THEN "finite"
                ELSE IF s["beta"] # 0 THEN "inf" ELSE "nan",
     num    |-> s["beta"],
     den    |-> s["alpha"],
     factor |-> 100 * 100]

(***************************************************************************)
(* fftOutputBuffer is declared with FFT_SIZE elements and simpleFFT stores *)
(* 2*FFT_SIZE: the stores FFT_SIZE .. 2*FFT_SIZE-1 leave the array.  Where *)
(* they land is decided by the order in which the build lays the objects   *)
(* out.  The model keeps the two orders a compiler emits definitions in:   *)
(*   "reverse": inputBuffer follows fftOutputBuffer and takes all stores;  *)
(*   "forward": powerSpectrum follows (and is recomputed afterwards), then *)
(*      sampleIndex and bufferReady in one word (both assigned after       *)
(*      processFFT returns), then the statics of loop (past, timer), of    *)
(*      Getpeak (the three buffers) and of ECGFilter (z1, z2 of each       *)
(*      section), one float or long per store.                             *)
(* The objects defined before inputBuffer are out of reach in both.        *)
(***************************************************************************)
Layouts == {"reverse", "forward"}

\* Until a store leaves the array the order has no effect: it is left open.
Unobserved == "unobserved"

AfterSpectrum == FFT_SIZE + FFT_SIZE \div 2
PastAt == AfterSpectrum + 1
TimerAt == AfterSpectrum + 2
DataAt == AfterSpectrum + 3
MeanAt == DataAt + DATA_LENGTH
DeviationAt == MeanAt + DATA_LENGTH
ECGStateAt == DeviationAt + DATA_LENGTH

\* The 32 bits of the float v / Q, for |v| < 2^24.
FloatBits(v) ==
    IF v = 0 THEN <<0, 0>>
    ELSE LET mag == IF v < 0 THEN 0 - v ELSE v
             p == Log2(mag)
             mant == (mag - Pow2(p)) * Pow2(23 - p)
             expo == p - Log2(Q) + 127
         IN  <<(IF v < 0 THEN Half \div 2 ELSE 0) + expo * 128 + mant \div Half,
               mant % Half>>

\* a float v read as a deviation: the radicand with the sign of v
AsDeviation(v) ==
    (IF v < 0 THEN 0 - 1 ELSE 1) * DATA_LENGTH * DATA_LENGTH * DATA_LENGTH * v * v

(***************************************************************************)
(* State.                                                                  *)
(*   micros        the value the last micros() call returned               *)
(*   layout        the order the build laid the objects out in, once a     *)
(*                 store has left fftOutputBuffer                          *)
(*   past, timer   the statics of loop()                                   *)
(*   ecg_z, notch_z, eeg_z   the z1, z2 of each section of each filter     *)
(*   serial        what the last loop() iteration printed                  *)
(* and the globals and statics of the sketch under their own names.        *)
(* History variables, which the program does not hold:                     *)
(*   loops, ticks  iterations of loop() and ticks fired so far             *)
(*   call          what the last Getpeak call read on entry                *)
(*   stored        per slot, the call that last stored statistics there,   *)
(*                 what it stored and the data buffer it computed them on  *)
(*   counts        peak-flagged ticks and RR intervals printed so far      *)
(*   peakClock     the time read on the latest peak-flagged tick, and the  *)
(*                 time from the peak-flagged tick before it to that;      *)
(*                 the same time as the sum of the delays between the two  *)
(*                 (gap; run while it is being summed), and whether the    *)
(*                 counter passed 2^32 between the two (wrapped, crossed)  *)
(*   eegLog        the filtered EEG samples of the ticks since the last    *)
(*                 multiple of FFT_SIZE ticks                              *)
(*   analysis      the last processFFT run                                 *)
(*   env           how many non-zero samples the inputs have carried, the  *)
(*                 two samples read on the last tick, the time the last    *)
(*                 iteration read at its start, and how many iterations    *)
(*                 started more than a tick period after the one before;   *)
(*                 the interval the last iteration computed, the sum of    *)
(*                 the delays since the iteration before (elapsed), and    *)
(*                 whether the counter passed 2^32 between the two         *)
(*   twin          a second peak detector, started as the first and given  *)
(*                 the same samples, which nothing else touches            *)
(*   bench         the arguments and the result of a function applied on   *)
(*                 its own; for smoothBandpower the raw powers of the last *)
(*                 block, for how many blocks (k) they have been the same, *)
(*                 the smoothed powers before the first and before the     *)
(*                 last of these blocks, and the blocks so far (n)         *)
(***************************************************************************)
\* The host program (project-oizyx) holds one RealTimeEEGAnalyzer and one
\* RealTimeStressProcessor:
\*   analyzer   dataBuffer and what the last call returned, with the last
\*              method called (op), the samples passed in since the
\*              construction or the last reset() (received) and since the
\*              construction (arrived), and the calls and resets made
\*   processor  the fields detectECGPeak reads and writes, the time
\*              Date.now() returned last, and counts of what happened
VARIABLES
    micros, layout, past, timer,
    ecg_z, data_index, peak, data_buffer, mean_buffer,
    standard_deviation_buffer, lastPeakTime, currentRRInterval, firstPeak,
    notch_z, eeg_z, inputBuffer, sampleIndex, bufferReady,
    fftOutputBuffer, powerSpectrum, smoothedPowers,
    serial,
    loops, ticks, call, stored, counts, peakClock, eegLog, analysis, env,
    bench, twin,
    analyzer, processor

program ==
    <<micros, layout, past, timer,
      ecg_z, data_index, peak, data_buffer, mean_buffer,
      standard_deviation_buffer, lastPeakTime, currentRRInterval, firstPeak,
      notch_z, eeg_z, inputBuffer, sampleIndex, bufferReady,
      fftOutputBuffer, powerSpectrum, smoothedPowers, serial>>

history ==
    <<loops, ticks, call, stored, counts, peakClock, eegLog, analysis, env, bench,
      twin>>

host == <<analyzer, processor>>

vars == <<program, history, host>>

(***************************************************************************)
(* RealTimeEEGAnalyzer (real-time-eeg-analyzer.ts).  A voltage is held in  *)
(* units of 3.3 / 1024 volt, so that (value - 512) * (3.3 / 1024) is       *)
(* value - 512.  Normalised band powers are held in hundredths.            *)
(***************************************************************************)
RealTimeEEGAnalyzer_FFT_SIZE == 128
ADC_MIDPOINT == 512

\* rawData.map(value => (value - 512) * (3.3 / 1024))
convertAdcToVoltage(rawData) ==
    [j \in 1..Len(rawData) |-> rawData[j] - ADC_MIDPOINT]

\* the buffer cut back to its first FFT_SIZE entries
updateBufferKeepingOldest(dataBuffer, data) ==
    LET all == dataBuffer \o data
    IN  IF Len(all) > RealTimeEEGAnalyzer_FFT_SIZE
        THEN SubSeq(all, 1, RealTimeEEGAnalyzer_FFT_SIZE)
        ELSE all

\* push(...data); if longer than FFT_SIZE, splice(0, length - FFT_SIZE)
updateBuffer(dataBuffer, data) ==
    LET all == dataBuffer \o data
    IN  IF Len(all) > RealTimeEEGAnalyzer_FFT_SIZE
        THEN SubSeq(all, Len(all) - RealTimeEEGAnalyzer_FFT_SIZE + 1, Len(all))
        ELSE all

hasEnoughData(dataBuffer) == Len(dataBuffer) >= RealTimeEEGAnalyzer_FFT_SIZE

getEmptyBands == [b \in Bands |-> 0]

\* sum > 0.95 && sum < 1.05
isValidResult(bands) ==
    LET sum == bands.delta + bands.theta + bands.alpha + bands.beta + bands.gamma
    IN  sum > 95 /\ sum < 105

\* performFFTAnalysis: the transform is not computed.  A buffer of zeros has
\* total power 0 and gives the empty bands; any other buffer gives one of
\* the band vectors supplied, whose sum is the share of the power below
\* 100 Hz.
performFFTAnalysis(dataBuffer, spectra) ==
    IF \A j \in 1..Len(dataBuffer) : dataBuffer[j] = 0
    THEN {getEmptyBands} ELSE spectra

NoResult == [bands |-> getEmptyBands, isValid |-> FALSE, samplesProcessed |-> 0]

NewAnalyzer ==
    [dataBuffer |-> <<>>, result |-> NoResult, op |-> "none",
     received |-> 0, arrived |-> 0, calls |-> 0, resets |-> 0]

(***************************************************************************)
(* RealTimeStressProcessor (arduino-serial-parser.ts): the fields of the   *)
(* ECG peak detection.  Times are in milliseconds, ECG values and the      *)
(* statistics derived from them in thousandths of an ADC count.            *)
(***************************************************************************)
\* what Date.now() returns when the run starts: some time after 1970
HostStart == 1000 * 1000

NewProcessor ==
    [rrIntervals |-> <<>>, lastPeakTime |-> 0, lastECGValue |-> 0,
     adaptiveThreshold |-> 0, signalBaseline |-> 0, signalPeak |-> 0,
     noisePeak |-> 0, learningMode |-> TRUE, sampleCount |-> 0,
     now |-> HostStart, accepted |-> 0, pushed |-> 0, shifted |-> 0,
     rejected |-> 0, skipped |-> 0, odd |-> 0]

REFRACTORY_MS == 200
HOST_RR_MIN_MS == 300
HOST_RR_MAX_MS == 1200
RR_KEPT == 8
LEARNING_SAMPLES == 100
SIGNIFICANT_RISE == 10
Milli == 1000

InRefractory(currentTime, lastPeak) ==
    currentTime - lastPeak < REFRACTORY_MS

RRValidFromRefractory(rrInterval) ==
    rrInterval >= REFRACTORY_MS /\ rrInterval <= HOST_RR_MAX_MS

RRValid(rrInterval) ==
    rrInterval >= HOST_RR_MIN_MS /\ rrInterval <= HOST_RR_MAX_MS

\* push, then shift once the list is longer than eight
PushRR(rrIntervals, rrInterval) ==
    LET pushed == Append(rrIntervals, rrInterval)
    IN  IF Len(pushed) > RR_KEPT THEN Tail(pushed) ELSE pushed

updateAdaptiveThreshold(p, currentValue) ==
    LET count == p.sampleCount + 1
        baseline == (995 * p.signalBaseline + 5 * currentValue) \div 1000
        highest == IF p.learningMode /\ currentValue > p.signalPeak
                THEN currentValue ELSE p.signalPeak
    IN  IF p.learningMode
        THEN IF count > LEARNING_SAMPLES
             THEN [p EXCEPT !.sampleCount = count,
                            !.signalBaseline = baseline,
                            !.signalPeak = highest,
                            !.adaptiveThreshold =
                                baseline + (6 * (highest - baseline)) \div 10,
                            !.noisePeak = baseline,
                            !.learningMode = FALSE]
             ELSE [p EXCEPT !.sampleCount = count,
                            !.signalBaseline = baseline,
                            !.signalPeak = highest]
        ELSE [p EXCEPT !.sampleCount = count,
                       !.signalBaseline = baseline,
                       !.adaptiveThreshold =
                           p.noisePeak + (p.signalPeak - p.noisePeak) \div 4]

\* what enhancedPeakDetection returns
isPeak(p, currentValue) ==
    /\ ~p.learningMode
    /\ currentValue > p.adaptiveThreshold
    /\ currentValue > p.lastECGValue
    /\ currentValue > p.signalBaseline + SIGNIFICANT_RISE * Milli

\* what enhancedPeakDetection leaves in the statistics
enhancedPeakDetection(p, currentValue) ==
    IF p.learningMode THEN p
    ELSE IF isPeak(p, currentValue)
    THEN [p EXCEPT !.signalPeak = (7 * p.signalPeak + currentValue) \div 8]
    ELSE IF currentValue < p.adaptiveThreshold
    THEN [p EXCEPT !.noisePeak = (7 * p.noisePeak + currentValue) \div 8]
    ELSE p

detectECGPeak(p, currentECG, currentTime) ==
    LET p1 == updateAdaptiveThreshold(p, currentECG)
        p2 == enhancedPeakDetection(p1, currentECG)
        rrInterval == currentTime - p.lastPeakTime
    IN  IF InRefractory(currentTime, p.lastPeakTime)
        THEN [p1 EXCEPT !.lastECGValue = currentECG,
                        !.skipped = p.skipped + 1]
        ELSE IF isPeak(p1, currentECG)
        THEN IF p.lastPeakTime > 0 /\ RRValid(rrInterval)
             THEN [p2 EXCEPT !.rrIntervals = PushRR(p.rrIntervals, rrInterval),
                             !.lastPeakTime = currentTime,
                             !.lastECGValue = currentECG,
                             !.accepted = p.accepted + 1,
                             !.pushed = p.pushed + 1,
                             !.shifted = p.shifted +
                                 (IF Len(p.rrIntervals) = RR_KEPT THEN 1 ELSE 0)]
             ELSE [p2 EXCEPT !.lastPeakTime = currentTime,
                             !.lastECGValue = currentECG,
                             !.accepted = p.accepted + 1,
                             !.rejected = p.rejected +
                                 (IF p.lastPeakTime > 0 THEN 1 ELSE 0)]
        ELSE [p2 EXCEPT !.lastECGValue = currentECG]


\* buffers that start with something in them
StaleBuffer == [c \in Slots |-> 1]

\* a static array of floats, zero-initialised
ZeroBuffer == [c \in Slots |-> 0]

NoCall == [n |-> 0, slot |-> 0, sample |-> 0, mean |-> 0, sd |-> 0, old |-> 0,
           prior |-> [n |-> 0, mean |-> 0, sd |-> 0, data |-> ZeroBuffer]]

NoAnalysis ==
    [n |-> 0, tick |-> 0, at |-> 0, lastStore |-> 0,
     input |-> [j \in Bins |-> 0],
     raw |-> ZeroPowers, prev |-> ZeroPowers]

Silent == [tick |-> FALSE, signal |-> 0, peak |-> FALSE, rr |-> <<>>,
           fft |-> FALSE, ratio |-> <<>>]

NoBench ==
    [spectrum |-> [i \in HalfBins |-> 0], res |-> BinResolution,
     done |-> FALSE, result |-> ZeroPowers,
     raw |-> ZeroPowers, start |-> ZeroPowers, before |-> ZeroPowers,
     k |-> 0, n |-> 0,
     section |-> <<0, 0, 0, 0, 0>>, in |-> 0, z |-> <<0, 0>>,
     out |-> 0, next |-> <<0, 0>>,
     filter |-> "none",
     size |-> 0, cursor |-> 0, swaps |-> 0, outside |-> FALSE,
     block |-> [s \in 0..(2 * FFT_SIZE - 1) |-> s]]

Boot ==
    /\ micros = <<0, 0>>
    /\ layout = Unobserved
    /\ past = <<0, 0>>
    /\ timer = <<0, 0>>
    /\ ecg_z = ZeroState(ECGSections)
    /\ data_index = 0
    /\ peak = FALSE
    /\ data_buffer = ZeroBuffer
    /\ mean_buffer = ZeroBuffer
    /\ standard_deviation_buffer = ZeroBuffer
    /\ lastPeakTime = <<0, 0>>
    /\ currentRRInterval = <<0, 0>>
    /\ firstPeak = TRUE
    /\ notch_z = ZeroState(NotchSections)
    /\ eeg_z = ZeroState(EEGSections)
    /\ inputBuffer = [j \in Bins |-> 0]
    /\ sampleIndex = 0
    /\ bufferReady = FALSE
    /\ fftOutputBuffer = [k \in Bins |-> 0]
    /\ powerSpectrum = [i \in HalfBins |-> 0]
    /\ smoothedPowers = ZeroPowers
    /\ serial = Silent
    /\ loops = 0
    /\ ticks = 0
    /\ call = NoCall
    /\ stored = [c \in Slots |-> [n |-> 0, mean |-> 0, sd |-> 0, data |-> ZeroBuffer]]
    /\ counts = [peaks |-> 0, rrs |-> 0]
    /\ peakClock = [at |-> <<0, 0>>, since |-> <<0, 0>>,
                    gap |-> 0, run |-> 0, crossed |-> FALSE, wrapped |-> FALSE]
    /\ eegLog = <<>>
    /\ analysis = NoAnalysis
    /\ env = [ecg |-> 0, eeg |-> 0, sensor |-> 0, raw |-> 0,
              read |-> <<0, 0>>, overruns |-> 0,
              interval |-> <<0, 0>>, elapsed |-> 0, lag |-> 0, wrapped |-> FALSE]
    /\ twin = [index |-> 0, peak |-> FALSE, data |-> ZeroBuffer,
               mean |-> ZeroBuffer, sd |-> ZeroBuffer]
    /\ analyzer = NewAnalyzer
    /\ processor = NewProcessor

Init == Boot /\ bench = NoBench

(***************************************************************************)
(* The decisions of loop(), one operator each.                             *)
(***************************************************************************)
\* if (timer < 0), timer being the long decremented by the interval
TickDue(t) == IsNegative32(t)

\* the report without the firstPeak test
ReportsRRFromFirst(pk, first, interval) == pk /\ RRInRange(interval)

\* if (!firstPeak) { ... if (in range) print }, inside if (peak)
ReportsRR(pk, first, interval) == pk /\ ~first /\ RRInRange(interval)

\* lastPeakTime = currentTime moved inside the range test
NextLastPeakTimeIfAccepted(pk, interval, currentTime, last) ==
    IF pk /\ RRInRange(interval) THEN currentTime ELSE last

\* lastPeakTime = currentTime, inside if (peak), after the report
NextLastPeakTime(pk, interval, currentTime, last) ==
    IF pk THEN currentTime ELSE last

\* firstPeak = false, inside if (peak)
NextFirstPeak(pk, first) == IF pk THEN FALSE ELSE first

\* if (sampleIndex < FFT_SIZE) inputBuffer[sampleIndex++] = filteredSample
\* the guard closed on the first slot as well
HasRoomAfterFirst(idx) == idx > 0 /\ idx < FFT_SIZE

HasRoom(idx) == idx < FFT_SIZE

\* the buffer filled from its last slot down
WriteSlotFromEnd(idx) == FFT_SIZE - 1 - idx

WriteSlot(idx) == idx

\* if (sampleIndex >= FFT_SIZE) bufferReady = true
BlockFull(idx) == idx >= FFT_SIZE

\* sampleIndex = 0, after processFFT
IndexAfterAnalysis == 0

(***************************************************************************)
(* One iteration of loop().  The iteration reads micros() `delay`          *)
(* microseconds after the previous read; on a tick it reads the two ADC    *)
(* channels (sensor, raw, in counts) and, on a peak, reads micros() again  *)
(* `latency` microseconds later.  `tones` is the family of spectra.        *)
(***************************************************************************)
Loop(limit, Delays, Sensors, Raws, Latencies, tones) ==
    /\ loops < limit
    /\ \E delay \in Delays :
       LET present == Add32(micros, U32(delay))
           interval == Elapsed(present, past)
           timer1 == Sub32(timer, interval)
           tick == TickDue(timer1)
       IN
       \E sensor \in (IF tick THEN Sensors ELSE {0}),
          raw \in (IF tick THEN Raws ELSE {0}),
          latency \in (IF tick THEN Latencies ELSE {0}) :
       LET \* ---- ECG path
           signal == ChainOut(ECGSections, ecg_z, sensor * Q) \div SIGNAL_DIVISOR
           m == mean_buffer[data_index]
           r == standard_deviation_buffer[data_index]
           old == data_buffer[data_index]
           pk == IsPeak(signal, m, r)
           data1 == [data_buffer EXCEPT ![data_index] = StoredSample(signal, old, pk)]
           mean1 == MeanOf(data1, data_index)
           dev1 == DeviationOf(data1, mean1)
           currentTime == Add32(present, U32(latency))
           rrInterval == Elapsed(currentTime, lastPeakTime)
           report == ReportsRR(pk, firstPeak, rrInterval)
           \* ---- EEG path
           filtered == ChainOut(EEGSections, eeg_z,
                                ChainOut(NotchSections, notch_z, raw * Q))
           room == HasRoom(sampleIndex)
           buffer1 == IF tick /\ room
                      THEN [inputBuffer EXCEPT ![WriteSlot(sampleIndex)] = filtered]
                      ELSE inputBuffer
           index1 == IF tick /\ room THEN sampleIndex + 1 ELSE sampleIndex
           ready == bufferReady \/ (tick /\ BlockFull(index1))
       IN
       \E spectrum \in (IF ready THEN simpleFFT(buffer1, tones) ELSE {ZeroSpectrum}),
          order \in (IF ready /\ layout = Unobserved THEN Layouts ELSE {layout}) :
       LET output == [k \in Bins |-> Stored(spectrum, k)]
           power == PowerOf(output)
           rawPowers == calculateBandpower(power, BinResolution, FFT_SIZE \div 2)
           smoothed1 == smoothBandpower(rawPowers, smoothedPowers)
           hit == ready /\ order = "forward"
       IN
       /\ micros' = IF tick /\ pk THEN currentTime ELSE present
       /\ layout' = order
       \* ---- scheduler
       /\ past' = IF hit THEN FloatBits(Stored(spectrum, PastAt)) ELSE present
       /\ timer' = IF hit THEN FloatBits(Stored(spectrum, TimerAt))
                   ELSE IF tick THEN Add32(timer1, U32(TickPeriod))
                   ELSE timer1
       \* ---- ECG path
       /\ ecg_z' = IF hit
                   THEN [j \in 1..Len(ECGSections) |->
                            <<Stored(spectrum, ECGStateAt + 2 * (j - 1)),
                              Stored(spectrum, ECGStateAt + 2 * (j - 1) + 1)>>]
                   ELSE IF tick THEN ChainNext(ECGSections, ecg_z, sensor * Q)
                   ELSE ecg_z
       /\ data_index' = IF tick THEN NextIndex(data_index) ELSE data_index
       /\ peak' = IF tick THEN pk ELSE peak
       /\ data_buffer' = IF hit THEN [c \in Slots |-> Stored(spectrum, DataAt + c)]
                         ELSE IF tick THEN data1
                         ELSE data_buffer
       /\ mean_buffer' = IF hit
                         THEN [c \in Slots |-> DATA_LENGTH * Stored(spectrum, MeanAt + c)]
                         ELSE IF tick THEN [mean_buffer EXCEPT ![data_index] = mean1]
                         ELSE mean_buffer
       /\ standard_deviation_buffer' =
             IF hit
             THEN [c \in Slots |-> AsDeviation(Stored(spectrum, DeviationAt + c))]
             ELSE IF tick THEN [standard_deviation_buffer EXCEPT ![data_index] = dev1]
             ELSE standard_deviation_buffer
       /\ currentRRInterval' =
             IF tick /\ pk /\ ~firstPeak THEN rrInterval ELSE currentRRInterval
       /\ lastPeakTime' =
             IF tick THEN NextLastPeakTime(pk, rrInterval, currentTime, lastPeakTime)
             ELSE lastPeakTime
       /\ firstPeak' = IF tick THEN NextFirstPeak(pk, firstPeak) ELSE firstPeak
       \* ---- EEG path
       /\ notch_z' = IF tick THEN ChainNext(NotchSections, notch_z, raw * Q)
                     ELSE notch_z
       /\ eeg_z' = IF tick
                   THEN ChainNext(EEGSections, eeg_z,
                                  ChainOut(NotchSections, notch_z, raw * Q))
                   ELSE eeg_z
       /\ inputBuffer' =
             IF ready /\ order = "reverse"
             THEN [j \in Bins |-> Stored(spectrum, FFT_SIZE + j)]
             ELSE buffer1
       /\ sampleIndex' = IF ready THEN IndexAfterAnalysis ELSE index1
       /\ bufferReady' = FALSE
       /\ fftOutputBuffer' = IF ready THEN output ELSE fftOutputBuffer
       /\ powerSpectrum' = IF ready THEN power ELSE powerSpectrum
       /\ smoothedPowers' = IF ready THEN smoothed1 ELSE smoothedPowers
       \* ---- what the iteration printed
       /\ serial' = [tick   |-> tick,
                     signal |-> IF tick THEN signal ELSE 0,
                     peak   |-> tick /\ pk,
                     rr     |-> IF tick /\ report
                                THEN <<PrintedMs(rrInterval)>> ELSE <<>>,
                     fft    |-> ready,
                     ratio  |-> IF ready THEN <<RatioOf(smoothed1)>> ELSE <<>>]
       \* ---- history
       /\ loops' = loops + 1
       /\ ticks' = IF tick THEN ticks + 1 ELSE ticks
       /\ call' = IF tick
                  THEN [n |-> ticks + 1, slot |-> data_index, sample |-> signal,
                        mean |-> m, sd |-> r, old |-> old,
                        prior |-> stored[data_index]]
                  ELSE call
       /\ stored' = IF tick
                    THEN [stored EXCEPT ![data_index] =
                             [n |-> ticks + 1, mean |-> mean1, sd |-> dev1,
                              data |-> data1]]
                    ELSE stored
       /\ counts' = [peaks |-> counts.peaks + (IF tick /\ pk THEN 1 ELSE 0),
                     rrs |-> counts.rrs + (IF tick /\ report THEN 1 ELSE 0)]
       /\ peakClock' = IF tick /\ pk
                       THEN [at |-> currentTime,
                             since |-> Sub32(currentTime, peakClock.at),
                             gap |-> peakClock.run + delay + latency,
                             run |-> 0,
                             crossed |-> FALSE,
                             wrapped |-> peakClock.crossed
                                            \/ ~Geq32(currentTime, micros)]
                       ELSE [peakClock EXCEPT
                                !.run = peakClock.run + delay,
                                !.crossed = peakClock.crossed
                                               \/ ~Geq32(present, micros)]
       /\ eegLog' = IF ~tick THEN eegLog
                    ELSE IF ticks % FFT_SIZE = 0 THEN <<filtered>>
                    ELSE Append(eegLog, filtered)
       /\ analysis' = IF ready
                      THEN [n |-> analysis.n + 1, tick |-> ticks',
                            at |-> index1, lastStore |-> LastStore(FFT_SIZE),
                            input |-> buffer1,
                            raw |-> rawPowers, prev |-> smoothedPowers]
                      ELSE analysis
       /\ env' = [ecg |-> env.ecg + (IF tick /\ sensor # 0 THEN 1 ELSE 0),
                  eeg |-> env.eeg + (IF tick /\ raw # 0 THEN 1 ELSE 0),
                  sensor |-> IF tick THEN sensor ELSE env.sensor,
                  raw |-> IF tick THEN raw ELSE env.raw,
                  read |-> present,
                  overruns |-> env.overruns
                      + (IF Geq32(U32(TickPeriod), Sub32(present, env.read))
                         THEN 0 ELSE 1),
                  interval |-> interval,
                  elapsed |-> env.lag + delay,
                  lag |-> IF tick /\ pk THEN latency ELSE 0,
                  wrapped |-> ~Geq32(present, env.read)]
       /\ bench' = bench
       /\ twin' = IF tick THEN Getpeak(twin, signal) ELSE twin
       /\ UNCHANGED host

(***************************************************************************)
(* The RR specification: a few iterations with peaks at chosen intervals.  *)
(***************************************************************************)
MaxRRLoops == 3
RRDelays == {4000, 399699, 399700, 1999700, 1999701, 3000000}
RRLatencies == {300}
PulseCounts == 1024 - 1

RRNext == Loop(MaxRRLoops, RRDelays, {0, PulseCounts}, {0}, RRLatencies, {})

SpecRR == Init /\ [][RRNext]_vars

(***************************************************************************)
(* The detector specification: every iteration is a tick; the ECG channel  *)
(* is a baseline of 0 with a few samples at full scale.                    *)
(***************************************************************************)
MaxDetLoops == 19
MaxEcgPulses == 2

EcgSamples == IF env.ecg < MaxEcgPulses THEN {0, PulseCounts} ELSE {0}

DetNext == Loop(MaxDetLoops, {TickPeriod}, EcgSamples, {0}, RRLatencies, {})

SpecDet == Init /\ [][DetNext]_vars

(***************************************************************************)
(* The block specification: every iteration is a tick, for two blocks and  *)
(* a little more.  The ECG channel is 0; the EEG channel is 0 but for a    *)
(* few samples at the start and around the end of the first block.         *)
(***************************************************************************)
MaxBlockLoops == 516
MaxEegPulses == 2
RawCounts == 100

PulseTicks == {1, 2, FFT_SIZE + 1}

EegSamples ==
    IF env.eeg < MaxEegPulses /\ (ticks + 1) \in PulseTicks
    THEN {0, RawCounts} ELSE {0}

BlockTones == {<<50, 4, 0>>, <<20, 2, 2>>, <<100, 3, 0>>}

BlockNext ==
    Loop(MaxBlockLoops, {TickPeriod}, {0}, EegSamples, RRLatencies, BlockTones)

SpecBlock == Init /\ [][BlockNext]_vars

(***************************************************************************)
(* The band specification: calculateBandpower on its own, applied once to  *)
(* a power spectrum with at most two non-zero bins, at the bin resolution  *)
(* of the sketch (125 / 256 Hz), at the resolution of the first            *)
(* SAMPLE_RATE definition (512 / 256 Hz) and at 1 / 2 Hz, where a bin lies  *)
(* on every band edge.                                                     *)
(***************************************************************************)
ProbeBins ==
    {0, 1, 2, 3, 4, 7, 8, 9, 14, 15, 16, 17, 22, 23, 25, 26, 27,
     59, 60, 61, 62, 89, 90, 92, 93, FFT_SIZE \div 2 - 1}

NoBin == 0 - 1

ProbeSpectra ==
    {[i \in HalfBins |-> IF i = a THEN 1 ELSE IF i = b THEN 2 ELSE 0] :
        a, b \in ProbeBins \cup {NoBin}}

ProbeResolutions == {BinResolution, <<512, FFT_SIZE>>, <<1, 2>>}

BandInit ==
    /\ Boot
    /\ \E s \in ProbeSpectra, r \in ProbeResolutions :
          bench = [NoBench EXCEPT !.spectrum = s, !.res = r]

BandApply ==
    /\ ~bench.done
    /\ bench' = [bench EXCEPT
                    !.done = TRUE,
                    !.result = calculateBandpower(bench.spectrum, bench.res,
                                                  FFT_SIZE \div 2)]
    /\ UNCHANGED <<program, loops, ticks, call, stored, counts, peakClock,
                   eegLog, analysis, env, twin>>
    /\ UNCHANGED host

SpecBand == BandInit /\ [][BandApply]_vars

(***************************************************************************)
(* The tick specification: a few iterations, some of them not ticks, both  *)
(* channels carrying samples.                                              *)
(***************************************************************************)
MaxTickLoops == 4
TickDelays == {TickPeriod \div 2, TickPeriod}

TickNext ==
    Loop(MaxTickLoops, TickDelays, {0, PulseCounts}, {0, RawCounts},
         RRLatencies, {})

SpecTick == Init /\ [][TickNext]_vars

(***************************************************************************)
(* The pulse specification: every iteration is a tick; the ECG channel is  *)
(* a baseline of 0 with a triangular pulse of three samples (24 ms) every  *)
(* 800 ms, the first at the first tick; the run ends before the first      *)
(* block is complete.                                                      *)
(***************************************************************************)
MaxPulseLoops == 210
PulsePeriod == 800000 \div TickPeriod
PulseShape == <<PulseCounts \div 2, PulseCounts, PulseCounts \div 2>>

\* the sample of the tick after `done` ticks
PulseSample(done) ==
    IF done % PulsePeriod < Len(PulseShape)
    THEN PulseShape[(done % PulsePeriod) + 1] ELSE 0

PulseNext ==
    Loop(MaxPulseLoops, {TickPeriod}, {PulseSample(ticks)}, {0}, RRLatencies, {})

SpecPulse == Init /\ [][PulseNext]_vars

(***************************************************************************)
(* The section specification: one biquad section on its own, applied once  *)
(* to an input and a state, for each section of the three filters.         *)
(***************************************************************************)
AllSections ==
    {NotchSections[j] : j \in 1..Len(NotchSections)}
        \cup {EEGSections[j] : j \in 1..Len(EEGSections)}
        \cup {ECGSections[j] : j \in 1..Len(ECGSections)}

SectionInputs == {0 - 100 * Q, 0, Q, 100 * Q}
SectionStates == {0 - 100 * Q, 0, 10 * Q}

SectionInit ==
    /\ Boot
    /\ \E c \in AllSections, v \in SectionInputs,
          z1 \in SectionStates, z2 \in SectionStates :
          bench = [NoBench EXCEPT !.section = c, !.in = v, !.z = <<z1, z2>>]

SectionApply ==
    /\ ~bench.done
    /\ bench' = [bench EXCEPT
                    !.done = TRUE,
                    !.out = SectionOut(bench.section, bench.z, bench.in),
                    !.next = SectionNext(bench.section, bench.z, bench.in)]
    /\ UNCHANGED <<program, loops, ticks, call, stored, counts, peakClock,
                   eegLog, analysis, env, twin>>
    /\ UNCHANGED host

SpecSection == SectionInit /\ [][SectionApply]_vars

(***************************************************************************)
(* The smoothing specification: the last two steps of processFFT on their  *)
(* own, block after block, the raw powers of each block at one of a few    *)
(* levels: the five bands at the level and the total at six times it (a    *)
(* sixth of the power outside every band), or the five bands at the level  *)
(* and the total at five times it (no power outside the bands).            *)
(***************************************************************************)
MaxSmoothBlocks == 6
RawLevels == {0, 1, 3}

RawAt(level) == [f \in Fields |-> IF f = "total" THEN 6 * level ELSE level]

RawWithin(level) == [f \in Fields |-> IF f = "total" THEN 5 * level ELSE level]

RawBlocks == {RawAt(level) : level \in RawLevels} \cup {RawWithin(1)}

SmoothBlock ==
    /\ bench.n < MaxSmoothBlocks
    /\ \E raw \in RawBlocks :
          /\ smoothedPowers' = smoothBandpower(raw, smoothedPowers)
          /\ bench' = IF bench.k > 0 /\ raw = bench.raw
                      THEN [bench EXCEPT !.before = smoothedPowers,
                                         !.k = bench.k + 1,
                                         !.n = bench.n + 1]
                      ELSE [bench EXCEPT !.raw = raw,
                                         !.start = smoothedPowers,
                                         !.before = smoothedPowers,
                                         !.k = 1,
                                         !.n = bench.n + 1]
    /\ UNCHANGED <<micros, layout, past, timer, ecg_z, data_index, peak,
                   data_buffer, mean_buffer, standard_deviation_buffer,
                   lastPeakTime, currentRRInterval, firstPeak, notch_z, eeg_z,
                   inputBuffer, sampleIndex, bufferReady, fftOutputBuffer,
                   powerSpectrum, serial>>
    /\ UNCHANGED <<loops, ticks, call, stored, counts, peakClock, eegLog,
                   analysis, env, twin>>
    /\ UNCHANGED host

SpecSmooth == Init /\ [][SmoothBlock]_vars

(***************************************************************************)
(* The filter specification: the three filter functions called on their    *)
(* own, in any order, each call on one input; bench holds the function     *)
(* called last, its input and what it returned.                            *)
(***************************************************************************)
MaxFilterCalls == 4
FilterInputs == {0 - 100 * Q, 0, 100 * Q}

FilterCall(name, sections, zs, v) ==
    /\ bench.n < MaxFilterCalls
    /\ bench' = [bench EXCEPT !.filter = name, !.in = v,
                              !.out = ChainOut(sections, zs, v),
                              !.n = bench.n + 1]
    /\ UNCHANGED <<micros, layout, past, timer, data_index, peak,
                   data_buffer, mean_buffer, standard_deviation_buffer,
                   lastPeakTime, currentRRInterval, firstPeak,
                   inputBuffer, sampleIndex, bufferReady, fftOutputBuffer,
                   powerSpectrum, smoothedPowers, serial>>
    /\ UNCHANGED <<loops, ticks, call, stored, counts, peakClock, eegLog,
                   analysis, env, twin>>
    /\ UNCHANGED host

CallNotch ==
    \E v \in FilterInputs :
        /\ FilterCall("Notch", NotchSections, notch_z, v)
        /\ notch_z' = ChainNext(NotchSections, notch_z, v)
        /\ UNCHANGED <<eeg_z, ecg_z>>

CallEEGFilter ==
    \E v \in FilterInputs :
        /\ FilterCall("EEGFilter", EEGSections, eeg_z, v)
        /\ eeg_z' = ChainNext(EEGSections, eeg_z, v)
        /\ UNCHANGED <<notch_z, ecg_z>>

CallECGFilter ==
    \E v \in FilterInputs :
        /\ FilterCall("ECGFilter", ECGSections, ecg_z, v)
        /\ ecg_z' = ChainNext(ECGSections, ecg_z, v)
        /\ UNCHANGED <<notch_z, eeg_z>>

FilterNext == CallNotch \/ CallEEGFilter \/ CallECGFilter

SpecFilter == Init /\ [][FilterNext]_vars

(***************************************************************************)
(* The permutation specification: the bit-reverse loop of simpleFFT on its *)
(* own, one pass of the loop body per step, on the interleaved buffer of   *)
(* processFFT (2 * FFT_SIZE floats) for a size n that is a power of two    *)
(* from 2 to 256.  Every float of the buffer starts as its own index, so   *)
(* that the buffer shows where each float went.  bench holds n (size), i   *)
(* (cursor), the swaps made, and whether an index at or beyond n was used. *)
(***************************************************************************)
ReverseSizes == {Pow2(b) : b \in 1..REVERSED_BITS}

ReverseInit ==
    /\ Boot
    /\ \E n \in ReverseSizes : bench = [NoBench EXCEPT !.size = n]

ReverseStep ==
    /\ bench.size > 0
    /\ bench.cursor < bench.size
    /\ LET i == bench.cursor
           j == Reversed(i)
       IN  bench' = [bench EXCEPT
                        !.cursor = i + 1,
                        !.block = IF SwapDue(i, j)
                                  THEN Swapped(bench.block, i, j)
                                  ELSE bench.block,
                        !.swaps = bench.swaps + (IF SwapDue(i, j) THEN 1 ELSE 0),
                        !.outside = bench.outside \/ j >= bench.size]
    /\ UNCHANGED <<program, loops, ticks, call, stored, counts, peakClock,
                   eegLog, analysis, env, twin>>
    /\ UNCHANGED host

SpecReverse == ReverseInit /\ [][ReverseStep]_vars

(***************************************************************************)
(* The scheduler specification: a few iterations that start half a         *)
(* period, one period or three periods after the one before; both channels *)
(* read 0.                                                                 *)
(***************************************************************************)
MaxSchedLoops == 7
SchedDelays == {TickPeriod \div 2, TickPeriod, 3 * TickPeriod}

SchedNext == Loop(MaxSchedLoops, SchedDelays, {0}, {0}, RRLatencies, {})

SpecSched == Init /\ [][SchedNext]_vars

(***************************************************************************)
(* The wrap-around specification.  micros() returns to 0 after 2^32        *)
(* microseconds, a little under 4295 seconds.  The run starts 4294 seconds *)
(* after start-up, in the state the sketch is in when both channels have   *)
(* read 0 all along and every iteration came one tick period after the one *)
(* before, in a build that lays inputBuffer out behind fftOutputBuffer:    *)
(* every tick so far stored 0 and every analysis saw an all-zero block.    *)
(* The iterations of the run come a period, 400 ms or 799.7 ms after the   *)
(* one before, which carries the counter past 2^32.                        *)
(***************************************************************************)
WrapSeconds == 4294
WrapTicks == WrapSeconds * SAMPLE_RATE
WrapTime == MsToUs(WrapSeconds * 1000)

MaxWrapLoops == 4
WrapDelays == {TickPeriod, 400000, 800000 - 300}

WrapBoot ==
    /\ micros = WrapTime
    /\ layout = "reverse"
    /\ past = WrapTime
    /\ timer = <<0, 0>>
    /\ ecg_z = ZeroState(ECGSections)
    /\ data_index = WrapTicks % DATA_LENGTH
    /\ peak = FALSE
    /\ data_buffer = ZeroBuffer
    /\ mean_buffer = ZeroBuffer
    /\ standard_deviation_buffer = ZeroBuffer
    /\ lastPeakTime = <<0, 0>>
    /\ currentRRInterval = <<0, 0>>
    /\ firstPeak = TRUE
    /\ notch_z = ZeroState(NotchSections)
    /\ eeg_z = ZeroState(EEGSections)
    /\ inputBuffer = [j \in Bins |-> 0]
    /\ sampleIndex = WrapTicks % FFT_SIZE
    /\ bufferReady = FALSE
    /\ fftOutputBuffer = [k \in Bins |-> 0]
    /\ powerSpectrum = [i \in HalfBins |-> 0]
    /\ smoothedPowers = ZeroPowers
    /\ serial = [Silent EXCEPT !.tick = TRUE]
    /\ loops = WrapTicks
    /\ ticks = WrapTicks
    /\ call = [NoCall EXCEPT !.n = WrapTicks,
                             !.slot = (WrapTicks - 1) % DATA_LENGTH,
                             !.prior.n = WrapTicks - DATA_LENGTH]
    /\ stored = [c \in Slots |->
                    [n |-> WrapTicks - ((WrapTicks - 1 - c) % DATA_LENGTH),
                     mean |-> 0, sd |-> 0, data |-> ZeroBuffer]]
    /\ counts = [peaks |-> 0, rrs |-> 0]
    /\ peakClock = [at |-> <<0, 0>>, since |-> <<0, 0>>,
                    gap |-> 0, run |-> 0, crossed |-> FALSE, wrapped |-> FALSE]
    /\ eegLog = [j \in 1..(WrapTicks % FFT_SIZE) |-> 0]
    /\ analysis = [NoAnalysis EXCEPT
                       !.n = WrapTicks \div FFT_SIZE,
                       !.tick = (WrapTicks \div FFT_SIZE) * FFT_SIZE,
                       !.at = FFT_SIZE,
                       !.lastStore = LastStore(FFT_SIZE)]
    /\ env = [ecg |-> 0, eeg |-> 0, sensor |-> 0, raw |-> 0,
              read |-> WrapTime, overruns |-> 0,
              interval |-> U32(TickPeriod), elapsed |-> TickPeriod, lag |-> 0,
              wrapped |-> FALSE]
    /\ twin = [index |-> WrapTicks % DATA_LENGTH, peak |-> FALSE,
               data |-> ZeroBuffer, mean |-> ZeroBuffer, sd |-> ZeroBuffer]
    /\ analyzer = NewAnalyzer
    /\ processor = NewProcessor
    /\ bench = NoBench

WrapNext ==
    Loop(WrapTicks + MaxWrapLoops, WrapDelays, {0, PulseCounts}, {0},
         RRLatencies, {})

SpecWrap == WrapBoot /\ [][WrapNext]_vars

(***************************************************************************)
(* The call specification: Getpeak and ECGFilter called on their own, in   *)
(* any order, each on one argument.                                        *)
(***************************************************************************)
MaxPeakCalls == 5
PeakSamples == {0 - Q, 2 * Q}

CallGetpeak ==
    /\ bench.n < MaxPeakCalls
    /\ \E v \in PeakSamples :
          LET d == Getpeak([index |-> data_index, peak |-> peak,
                            data |-> data_buffer, mean |-> mean_buffer,
                            sd |-> standard_deviation_buffer], v)
          IN  /\ data_index' = d.index
              /\ peak' = d.peak
              /\ data_buffer' = d.data
              /\ mean_buffer' = d.mean
              /\ standard_deviation_buffer' = d.sd
              /\ bench' = [bench EXCEPT !.filter = "Getpeak", !.in = v,
                                        !.n = bench.n + 1]
    /\ UNCHANGED <<micros, layout, past, timer, ecg_z, lastPeakTime,
                   currentRRInterval, firstPeak, notch_z, eeg_z, inputBuffer,
                   sampleIndex, bufferReady, fftOutputBuffer, powerSpectrum,
                   smoothedPowers, serial>>
    /\ UNCHANGED <<loops, ticks, call, stored, counts, peakClock, eegLog,
                   analysis, env, twin>>
    /\ UNCHANGED host

PeakNext == CallGetpeak \/ CallECGFilter

SpecPeak == Init /\ [][PeakNext]_vars

(***************************************************************************)
(* The analyzer specification: analyzeEEGData and reset called in any      *)
(* order on one RealTimeEEGAnalyzer.  The k-th sample passed in since the  *)
(* construction is the ADC count k mod 1024, so that the buffer shows      *)
(* which samples it holds; a call passes in the next 1, 63, 64, 127 or 200 *)
(* samples.                                                                *)
(***************************************************************************)
MaxAnalyzerCalls == 4
ADC_COUNTS == 1024
ChunkLengths == {1, 63, 64, 127, 200}

RawSample(k) == k % ADC_COUNTS

\* band vectors in hundredths: all the power below 100 Hz, and half of it
AnalyzerSpectra ==
    {[b \in Bands |-> 20], [b \in Bands |-> 10]}

analyzeEEGData ==
    /\ analyzer.calls < MaxAnalyzerCalls
    /\ \E n \in ChunkLengths :
       LET rawEegData == [j \in 1..n |-> RawSample(analyzer.arrived + j)]
           voltageData == convertAdcToVoltage(rawEegData)
           buffer1 == updateBuffer(analyzer.dataBuffer, voltageData)
       IN  \E bands \in (IF hasEnoughData(buffer1)
                          THEN performFFTAnalysis(buffer1, AnalyzerSpectra)
                          ELSE {getEmptyBands}) :
              analyzer' =
                 [analyzer EXCEPT
                     !.dataBuffer = buffer1,
                     !.result =
                        IF ~hasEnoughData(buffer1)
                        THEN [bands |-> getEmptyBands, isValid |-> FALSE,
                              samplesProcessed |-> Len(buffer1)]
                        ELSE [bands |-> bands, isValid |-> isValidResult(bands),
                              samplesProcessed |-> RealTimeEEGAnalyzer_FFT_SIZE],
                     !.op = "analyzeEEGData",
                     !.received = analyzer.received + n,
                     !.arrived = analyzer.arrived + n,
                     !.calls = analyzer.calls + 1]
    /\ UNCHANGED <<program, history, processor>>

reset ==
    /\ analyzer.calls < MaxAnalyzerCalls
    /\ analyzer' = [analyzer EXCEPT !.dataBuffer = <<>>,
                                    !.op = "reset",
                                    !.received = 0,
                                    !.calls = analyzer.calls + 1,
                                    !.resets = analyzer.resets + 1]
    /\ UNCHANGED <<program, history, processor>>

AnalyzerNext == analyzeEEGData \/ reset

SpecAnalyzer == Init /\ [][AnalyzerNext]_vars

(***************************************************************************)
(* The processor specification: detectECGPeak called once per ECG sample.  *)
(* The samples alternate between 500 and 600 counts, so that every second  *)
(* sample rises above its predecessor; a low sample comes 4 ms after the   *)
(* sample before it, and the high samples are 300 ms apart, except that a  *)
(* few times in a run a high sample follows the previous one after 100,    *)
(* 200, 1200 or 1201 ms.  During the first hundred samples all are 4 ms    *)
(* apart.                                                                  *)
(***************************************************************************)
MaxHostSamples == 124
MaxOddGaps == 2
SamplePeriodMs == 4
BeatGapMs == 300
OddGapsMs == {100, 200, 1200, 1201}
LowECG == 500 * Milli
HighECG == 600 * Milli

CallDetectECGPeak ==
    /\ processor.sampleCount < MaxHostSamples
    /\ LET high == (processor.sampleCount + 1) % 2 = 0
           learned == processor.sampleCount >= LEARNING_SAMPLES
       IN  \E gap \in {BeatGapMs} \cup OddGapsMs :
              /\ (gap # BeatGapMs) =>
                     (high /\ learned /\ processor.odd < MaxOddGaps)
              /\ (gap = BeatGapMs) => TRUE
              /\ LET dt == IF high /\ learned
                           THEN gap - SamplePeriodMs ELSE SamplePeriodMs
                     currentTime == processor.now + dt
                     after == detectECGPeak(processor,
                                            IF high THEN HighECG ELSE LowECG,
                                            currentTime)
                 IN  processor' =
                        [after EXCEPT !.now = currentTime,
                                      !.odd = processor.odd +
                                          (IF gap # BeatGapMs THEN 1 ELSE 0)]
    /\ UNCHANGED <<program, history, analyzer>>

SpecProcessor == Init /\ [][CallDetectECGPeak]_vars

(***************************************************************************)
(* Properties of the peak detector (SpecDet, SpecBlock).                   *)
(***************************************************************************)
\* C1: the flag Getpeak returns is true exactly when the new sample exceeds
\* the mean held at the cursor by strictly more than 8 times the standard
\* deviation held at the cursor, both as they were on entry to the call.
\* With m = 16 * mean and R = 256 * 16 * std^2 the comparison
\* new - mean > 8 * std is 16 * new - m > 0 and (16 * new - m)^2 > 4 * R.
C1_FlagIsThresholdTest ==
    call.n > 0 =>
        LET a == 16 * call.sample - call.mean
            above == IF call.sd >= 0
                     THEN a > 0 /\ a * a > 4 * call.sd
                     ELSE a >= 0 \/ a * a < 4 * (0 - call.sd)
        IN  /\ peak = above
            /\ serial.tick => serial.peak = above

\* a flagged sample in the second cycle of the cursor, against a nonzero
\* mean and a nonzero deviation
C1_Witness ==
    /\ call.n > DATA_LENGTH
    /\ peak
    /\ call.sd > 0
    /\ call.mean # 0

\* C2: from the 17th call on, the mean and the deviation a call reads at the
\* cursor are the ones the call 16 calls earlier stored there, and the
\* sample it replaces is the one that call wrote.
C2_StatisticsAreOneCycleOld ==
    call.n > DATA_LENGTH =>
        /\ call.prior.n = call.n - DATA_LENGTH
        /\ call.mean = call.prior.mean
        /\ call.sd = call.prior.sd
        /\ call.old = call.prior.data[call.slot]

\* the same, as long as no block has been analysed
C2_HoldsBeforeFirstAnalysis ==
    (call.n > DATA_LENGTH /\ analysis.n = 0) =>
        /\ call.prior.n = call.n - DATA_LENGTH
        /\ call.mean = call.prior.mean
        /\ call.sd = call.prior.sd
        /\ call.old = call.prior.data[call.slot]

C2_Witness ==
    /\ call.n > DATA_LENGTH
    /\ analysis.n = 0
    /\ call.prior.mean # 0
    /\ call.prior.sd # 0

(***************************************************************************)
(* Properties of the RR interval policy (SpecRR).                          *)
(***************************************************************************)
Micros(t) == t[1] * 65536 + t[2]

\* C3: on a peak-flagged tick after the first, an RR interval is reported
\* exactly when the time since the previous peak-flagged tick is at least
\* 400 ms and at most 2000 ms, both ends included; what is reported is that
\* time.
C3_ReportedIffInRange ==
    (serial.tick /\ serial.peak /\ counts.peaks >= 2) =>
        LET since == peakClock.since
            inRange == /\ since[1] < 32768
                       /\ Micros(since) >= 400000
                       /\ Micros(since) <= 2000000
        IN  /\ (serial.rr # <<>>) <=> inRange
            /\ serial.rr # <<>> =>
                  /\ serial.rr[1] * 10 >= Micros(since) - 5
                  /\ serial.rr[1] * 10 <= Micros(since) + 5

\* an interval of exactly 400 ms, reported
C3_Witness ==
    /\ serial.tick /\ serial.peak /\ counts.peaks >= 2
    /\ peakClock.since = U32(400000)
    /\ serial.rr = <<40000>>

\* C4: lastPeakTime is the time read on the latest peak-flagged tick,
\* whether or not its interval was reported, so each interval is measured
\* from the peak-flagged tick just before; a rejected interval leaves the
\* detector running.
C4_LastPeakTimeFollowsEveryPeak ==
    /\ lastPeakTime = peakClock.at
    /\ (serial.tick /\ serial.peak) =>
          /\ lastPeakTime = micros
          /\ ~firstPeak
          /\ counts.peaks >= 2 => currentRRInterval = peakClock.since
    /\ data_index = ticks % DATA_LENGTH

\* a peak-flagged tick whose interval was rejected, after an earlier peak
C4_Witness ==
    /\ serial.tick /\ serial.peak /\ counts.peaks >= 2
    /\ serial.rr = <<>>
    /\ lastPeakTime = micros
    /\ lastPeakTime # <<0, 0>>

\* C5: the first peak-flagged tick reports no interval and only records its
\* time; the number of reports never exceeds the number of peaks less one;
\* no interval is reported on a tick that is not peak-flagged.
C5_FirstPeakReportsNothing ==
    /\ counts.peaks = 0 => (firstPeak /\ counts.rrs = 0)
    /\ counts.peaks >= 1 => (~firstPeak /\ counts.rrs <= counts.peaks - 1)
    /\ serial.rr # <<>> => (serial.tick /\ serial.peak /\ counts.peaks >= 2)
    /\ (serial.peak /\ counts.peaks = 1) =>
          (serial.rr = <<>> /\ lastPeakTime = micros)

\* the first peak, at a time since start that lies within the accepted range
C5_Witness ==
    /\ serial.peak /\ counts.peaks = 1
    /\ Micros(micros) >= 400000 /\ Micros(micros) <= 2000000
    /\ serial.rr = <<>>
    /\ ~firstPeak

(***************************************************************************)
(* Properties of the block buffer and the analysis (SpecBlock).            *)
(***************************************************************************)
\* C6: the blocks partition the stream of filtered EEG samples: the sample
\* of every tick is stored once, at the slot of its position in its block,
\* the block analysed after tick b * N is the samples of the N ticks up to
\* it in arrival order, and sampleIndex is 0 after each analysis.
C6_BlocksPartitionTheStream ==
    /\ sampleIndex = ticks % FFT_SIZE
    /\ sampleIndex > 0 =>
          /\ Len(eegLog) = sampleIndex
          /\ \A j \in 0..(sampleIndex - 1) : inputBuffer[j] = eegLog[j + 1]
    /\ serial.fft =>
          /\ sampleIndex = 0
          /\ analysis.tick = analysis.n * FFT_SIZE
          /\ Len(eegLog) = FFT_SIZE
          /\ \A j \in Bins : analysis.input[j] = eegLog[j + 1]

\* the second block analysed, with a non-zero sample in it
C6_Witness ==
    /\ serial.fft
    /\ analysis.n = 2
    /\ sampleIndex = 0
    /\ \E j \in Bins : analysis.input[j] # 0

\* C7: processFFT runs once per FFT_SIZE ticks, in the iteration in which
\* the buffer became full; it never runs on a partially filled buffer; and
\* inputBuffer is not written while the analysis runs, so that after it the
\* buffer still holds the block that was analysed.
C7_AnalysisOncePerFullBlock ==
    /\ analysis.n = ticks \div FFT_SIZE
    /\ ~bufferReady
    /\ serial.fft =>
          /\ serial.tick
          /\ analysis.at = FFT_SIZE
          /\ analysis.tick = ticks
          /\ ticks % FFT_SIZE = 0
          /\ inputBuffer = analysis.input

\* the same without the last clause
C7_OncePerFullBlock ==
    /\ analysis.n = ticks \div FFT_SIZE
    /\ ~bufferReady
    /\ serial.fft =>
          /\ serial.tick
          /\ analysis.at = FFT_SIZE
          /\ analysis.tick = ticks
          /\ ticks % FFT_SIZE = 0

\* C10: after every block each of the six smoothed fields is
\* 0.63 * raw + 0.37 * previous of its own raw and previous value, from 0 at
\* start-up, and it keeps that value until the next block completes.  In
\* units of 1 / 10000 the value is 6300 * raw + 0.37 * previous to the
\* nearest unit.
C10_SmoothingRule ==
    /\ analysis.n = 0 => smoothedPowers = [f \in Fields |-> 0]
    /\ analysis.n > 0 =>
          \A f \in Fields :
              LET exact == 630000 * analysis.raw[f] + 37 * analysis.prev[f]
              IN  /\ 100 * smoothedPowers[f] - 50 <= exact
                  /\ exact < 100 * smoothedPowers[f] + 50

\* a second block whose raw powers and previous smoothed values are both
\* non-zero, in a band and in total
C10_Witness ==
    /\ analysis.n = 2
    /\ analysis.raw.beta > 0
    /\ analysis.prev.alpha > 0
    /\ analysis.prev.total > 0
    /\ smoothedPowers.alpha > 0
    /\ smoothedPowers.alpha < analysis.prev.alpha

(***************************************************************************)
(* Properties of calculateBandpower (SpecBand).                            *)
(***************************************************************************)
\* the sum of spectrum[i] over the bins i of S within lo .. hi
RECURSIVE PowerIn(_, _, _, _)
PowerIn(spectrum, S, lo, hi) ==
    IF lo > hi THEN 0
    ELSE IF lo = hi THEN (IF lo \in S THEN spectrum[lo] ELSE 0)
    ELSE PowerIn(spectrum, S, lo, (lo + hi) \div 2)
         + PowerIn(spectrum, S, (lo + hi) \div 2 + 1, hi)

\* the bins 1 .. N/2 - 1 whose frequency i * rate / size is in [lo, hi),
\* the edges in tenths of a hertz
BinsWithin(res, lo, hi) ==
    {i \in 1..(FFT_SIZE \div 2 - 1) :
        10 * i * res[1] >= lo * res[2] /\ 10 * i * res[1] < hi * res[2]}

\* C8: every bin from 1 to N/2 - 1 adds its power to total, and to the one
\* band whose half-open range holds its frequency: delta [0.5, 4),
\* theta [4, 8), alpha [8, 13), beta [13, 30), gamma [30, 45); a bin below
\* 0.5 Hz or at or above 45 Hz adds to no band, and bin 0 adds to nothing.
C8_HalfOpenBands ==
    bench.done =>
        LET P(lo, hi) == PowerIn(bench.spectrum, BinsWithin(bench.res, lo, hi),
                                 1, FFT_SIZE \div 2 - 1)
        IN  /\ bench.result.delta = P(5, 40)
            /\ bench.result.theta = P(40, 80)
            /\ bench.result.alpha = P(80, 130)
            /\ bench.result.beta = P(130, 300)
            /\ bench.result.gamma = P(300, 450)
            /\ bench.result.total =
                  PowerIn(bench.spectrum, 1..(FFT_SIZE \div 2 - 1),
                          1, FFT_SIZE \div 2 - 1)

\* a bin exactly on 4 Hz and bin 0 both carry power: the first goes to
\* theta, the second nowhere
C8_Witness ==
    /\ bench.done
    /\ bench.res = <<1, 2>>
    /\ bench.spectrum[8] = 1
    /\ bench.spectrum[0] = 2
    /\ bench.result.theta = 1
    /\ bench.result.delta = 0
    /\ bench.result.total = 1

RECURSIVE IdealLow(_, _)
IdealLow(d, k) ==
    IF k = 0 THEN 100 * d ELSE (37 * IdealLow(d, k - 1)) \div 100

RECURSIVE IdealHigh(_, _)
IdealHigh(d, k) ==
    IF k = 0 THEN 100 * d ELSE 0 - ((0 - 37 * IdealHigh(d, k - 1)) \div 100)

Distance(a, b) == IF a >= b THEN a - b ELSE b - a

\* C11 as stated: after k blocks of the same raw power r the smoothed value
\* s_k satisfies s_k - r = 0.37^k * (s_0 - r) exactly.
C11_ExactGeometricLaw ==
    bench.k > 0 =>
        \A f \in Fields :
            LET r == 10000 * bench.raw[f]
            IN  /\ IdealLow(bench.start[f] - r, bench.k)
                      = IdealHigh(bench.start[f] - r, bench.k)
                /\ 100 * (smoothedPowers[f] - r)
                      = IdealLow(bench.start[f] - r, bench.k)

\* C11: after k blocks of the same raw power r the smoothed value s_k
\* satisfies s_k - r = 0.37^k * (s_0 - r) to within the rounding of the
\* arithmetic (two units of the smallest step), its distance to r never
\* grows from one block to the next, and it never passes r.
C11_GeometricLawWithinRounding ==
    bench.k > 0 =>
        \A f \in Fields :
            LET r == 10000 * bench.raw[f]
                d0 == bench.start[f] - r
                dk == smoothedPowers[f] - r
            IN  /\ 100 * dk >= IdealLow(d0, bench.k) - 200
                /\ 100 * dk <= IdealHigh(d0, bench.k) + 200
                /\ Distance(smoothedPowers[f], r) <= Distance(bench.before[f], r)
                /\ d0 <= 0 => dk <= 0
                /\ d0 >= 0 => dk >= 0

\* the third block or later of a lower raw power, the smoothed value still
\* above it
C11_Witness ==
    /\ bench.k >= 3
    /\ bench.raw.alpha > 0
    /\ bench.start.alpha > 10000 * bench.raw.alpha
    /\ smoothedPowers.alpha > 10000 * bench.raw.alpha
    /\ smoothedPowers.alpha < bench.before.alpha

(***************************************************************************)
(* Properties of the printed ratio (SpecBlock).                            *)
(***************************************************************************)
\* C12: the ratio printed after each block is a finite value, never the
\* result of a division by zero (Inf or NaN).
C12_RatioIsFinite ==
    serial.ratio # <<>> => serial.ratio[1].kind = "finite"

\* C13: the printed ratio is beta / alpha: the two scalings by 100 cancel.
\* The printed value is factor * num / den, and it is num / den exactly
\* when factor * num = num.
C13_RatioIsBetaOverAlpha ==
    (serial.ratio # <<>> /\ serial.ratio[1].kind = "finite") =>
        /\ serial.ratio[1].num = smoothedPowers.beta
        /\ serial.ratio[1].den = smoothedPowers.alpha
        /\ serial.ratio[1].factor * serial.ratio[1].num = serial.ratio[1].num

(***************************************************************************)
(* Properties of a biquad section (SpecSection).                           *)
(***************************************************************************)
\* C14 as stated: a section computes x = input - a1 * z1 - a2 * z2, returns
\* b0 * x + z1 and leaves the state <<x, z1>>.
C14_OutputIsB0xPlusZ1 ==
    bench.done =>
        LET c == bench.section
            x == bench.in - Mul(c[4], bench.z[1]) - Mul(c[5], bench.z[2])
        IN  /\ bench.out = Mul(c[1], x) + bench.z[1]
            /\ bench.next = <<x, bench.z[1]>>

\* C14: a section computes x = input - a1 * z1 - a2 * z2, returns
\* b0 * x + b1 * z1 + b2 * z2 and leaves the state z1 = x, z2 = the old z1;
\* for every section of Notch, EEGFilter and ECGFilter.
C14_DirectFormTwo ==
    bench.done =>
        LET c == bench.section
            x == bench.in - Mul(c[4], bench.z[1]) - Mul(c[5], bench.z[2])
        IN  /\ bench.out = Mul(c[1], x) + Mul(c[2], bench.z[1])
                              + Mul(c[3], bench.z[2])
            /\ bench.next = <<x, bench.z[1]>>

\* the second section of ECGFilter on a non-zero input and state, its
\* output not b0 * x + z1
C14_Witness ==
    /\ bench.done
    /\ bench.section = ECGSections[2]
    /\ bench.in # 0 /\ bench.z[1] # 0 /\ bench.z[2] # 0
    /\ bench.next[2] = bench.z[1]
    /\ bench.out # Mul(bench.section[1], bench.next[1]) + bench.z[1]

(***************************************************************************)
(* Properties of one tick (SpecTick).                                      *)
(***************************************************************************)
\* C15: an iteration that is a tick runs each step once: the ECG sample
\* read goes through ECGFilter, its output through one Getpeak call at the
\* cursor, giving the one value and the one flag printed; at most one RR
\* interval is printed, and only on a peak; the EEG sample read goes
\* through Notch and then EEGFilter, and the result is stored in the next
\* slot of inputBuffer.  An iteration that is not a tick runs none of them.
C15_TickRunsEachStepOnce ==
    [][ IF ticks' # ticks
        THEN LET notched == ChainOut(NotchSections, notch_z, env'.raw * Q)
                 filtered == ChainOut(EEGSections, eeg_z, notched)
             IN  /\ ticks' = ticks + 1
                 /\ serial'.tick
                 /\ serial'.signal =
                       ChainOut(ECGSections, ecg_z, env'.sensor * Q) \div 512
                 /\ ecg_z' = ChainNext(ECGSections, ecg_z, env'.sensor * Q)
                 /\ call'.n = call.n + 1
                 /\ call'.slot = data_index
                 /\ call'.sample = serial'.signal
                 /\ serial'.peak = peak'
                 /\ counts'.peaks = counts.peaks + (IF peak' THEN 1 ELSE 0)
                 /\ counts'.rrs - counts.rrs \in {0, 1}
                 /\ serial'.rr # <<>> => peak'
                 /\ notch_z' = ChainNext(NotchSections, notch_z, env'.raw * Q)
                 /\ eeg_z' = ChainNext(EEGSections, eeg_z, notched)
                 /\ sampleIndex' = sampleIndex + 1
                 /\ inputBuffer' = [inputBuffer EXCEPT ![sampleIndex] = filtered]
        ELSE /\ ~serial'.tick
             /\ serial'.rr = <<>>
             /\ UNCHANGED <<ecg_z, notch_z, eeg_z, call, data_index, peak,
                            counts, sampleIndex, inputBuffer>>
      ]_vars

\* a tick after the first with a peak flag and a non-zero sample on both
\* channels, following an iteration that was not a tick
C15_Witness ==
    /\ serial.tick /\ serial.peak
    /\ loops > ticks
    /\ ticks >= 2
    /\ env.sensor # 0 /\ env.raw # 0
    /\ inputBuffer[sampleIndex - 1] # 0
    /\ call.sample # 0

(***************************************************************************)
(* More properties of the peak detector (SpecDet, SpecBlock).              *)
(***************************************************************************)
\* C16: the peak detector depends on its input sequence only: a second
\* detector started from the same zero state and given the same samples
\* has the same flag, the same three buffers and the same cursor after
\* every sample, whatever else the program does.
C16_DetectorDependsOnInputOnly ==
    /\ twin.index = data_index
    /\ twin.peak = peak
    /\ twin.data = data_buffer
    /\ twin.mean = mean_buffer
    /\ twin.sd = standard_deviation_buffer

\* the same, as long as no block has been analysed
C16_HoldsBeforeFirstAnalysis ==
    analysis.n = 0 =>
        /\ twin.index = data_index
        /\ twin.peak = peak
        /\ twin.data = data_buffer
        /\ twin.mean = mean_buffer
        /\ twin.sd = standard_deviation_buffer

\* C18: the call at cursor c leaves in data_buffer[c] the new sample plus
\* the value the slot held on entry if the sample was classified a peak,
\* and the new sample itself if it was not; the other slots are as the call
\* found them.
C18_StoreRule ==
    call.n > 0 =>
        LET after == stored[call.slot].data
        IN  /\ peak => after[call.slot] = call.sample + call.old
            /\ ~peak => after[call.slot] = call.sample
            /\ after[call.slot] # call.sample => peak
            /\ analysis.n = 0 => data_buffer = after

\* a peak on a slot that held a non-zero value: the stored value is neither
\* the sample nor the old value
C18_Witness ==
    /\ call.n > DATA_LENGTH
    /\ peak
    /\ call.old # 0
    /\ stored[call.slot].data[call.slot] # call.sample
    /\ stored[call.slot].data[call.slot] = call.sample + call.old

\* the sum of v over the slots 0 .. n
RECURSIVE TotalOf(_, _)
TotalOf(v, n) == IF n < 0 THEN 0 ELSE v[n] + TotalOf(v, n - 1)

\* C19: after the call at cursor c, mean_buffer[c] is the mean of the 16
\* slots of data_buffer, the slot just written included, and the deviation
\* stored is their population standard deviation about that mean.  With S
\* the sum of the slots the mean is S / 16 and the deviation s satisfies
\* 16 * (16 * s)^2 = the sum over the slots of (16 * d - S)^2.
C19_MeanAndDeviationOfAllSlots ==
    call.n > 0 =>
        LET after == stored[call.slot]
            S == TotalOf(after.data, 15)
            squares == [i \in 0..15 |-> (16 * after.data[i] - S) * (16 * after.data[i] - S)]
        IN  /\ after.mean = S
            /\ after.sd = TotalOf(squares, 15)
            /\ analysis.n = 0 =>
                  /\ mean_buffer[call.slot] = after.mean
                  /\ standard_deviation_buffer[call.slot] = after.sd

\* a call that just wrote an accumulated peak value, with other non-zero
\* slots in the buffer
C19_Witness ==
    /\ call.n > DATA_LENGTH
    /\ peak
    /\ call.old # 0
    /\ \E i \in Slots : i # call.slot /\ stored[call.slot].data[i] # 0
    /\ stored[call.slot].sd > 0
    /\ mean_buffer[call.slot] = stored[call.slot].mean

\* C20: data_index is always in 0 .. 15; every call advances it by one
\* modulo 16, so after k calls it is k mod 16 and a slot is visited again
\* exactly 16 calls later.
C20_CursorInRange ==
    /\ data_index \in 0..15
    /\ call.n = ticks
    /\ data_index = call.n % 16
    /\ call.n > 0 =>
          /\ call.slot = (call.n - 1) % 16
          /\ data_index = (call.slot + 1) % 16
    /\ call.n > 16 => call.prior.n = call.n - 16

\* the cursor back at slot 0 after 16 calls, and past it
C20_Witness ==
    /\ call.n = DATA_LENGTH + 1
    /\ call.slot = 0
    /\ data_index = 1
    /\ call.prior.n = 1

(***************************************************************************)
(* Properties of the detector on a periodic pulse (SpecPulse).             *)
(***************************************************************************)
\* the pulses that have begun after `done` ticks
PulsesBegun(done) == (done + PulsePeriod - 1) \div PulsePeriod

\* C17: on a baseline of 0 with a short triangular pulse every 800 ms the
\* detector flags exactly one sample of every pulse and no baseline sample,
\* and an RR interval close to 800 ms is printed on every pulse after the
\* first.
C17_OnePeakPerPulse ==
    /\ serial.peak => (ticks - 1) % PulsePeriod < Len(PulseShape)
    /\ counts.peaks <= PulsesBegun(ticks)
    /\ (ticks > 0 /\ (ticks - 1) % PulsePeriod >= Len(PulseShape)) =>
          /\ counts.peaks = PulsesBegun(ticks)
          /\ counts.rrs = PulsesBegun(ticks) - 1
    /\ serial.rr # <<>> =>
          (serial.rr[1] >= 76000 /\ serial.rr[1] <= 84000)

(***************************************************************************)
(* Properties of the filter states (SpecFilter).                           *)
(***************************************************************************)
\* what a chain of sections c with states z does on input v: section 1 is
\* given v and section j + 1 the output of section j; each section moves
\* its own <<z1, z2>> to <<x, z1>>; the last output is returned
Threaded(c, z, v, after, returned) ==
    LET ins[j \in 1..Len(c)] ==
            IF j = 1 THEN v
            ELSE Mul(c[j - 1][1], ins[j - 1] - Mul(c[j - 1][4], z[j - 1][1])
                                             - Mul(c[j - 1][5], z[j - 1][2]))
                 + Mul(c[j - 1][2], z[j - 1][1]) + Mul(c[j - 1][3], z[j - 1][2])
        x(j) == ins[j] - Mul(c[j][4], z[j][1]) - Mul(c[j][5], z[j][2])
        n == Len(c)
    IN  /\ \A j \in 1..n : after[j] = <<x(j), z[j][1]>>
        /\ returned = Mul(c[n][1], x(n)) + Mul(c[n][2], z[n][1])
                          + Mul(c[n][3], z[n][2])

\* C21: the z1, z2 of a section belong to that section of that filter: a
\* call of one filter leaves the states of the two other filters as they
\* were; each section of the called filter moves its own state only, from
\* its own old state and its own input; and the input of section j + 1 is
\* the output of section j, the first section taking the argument and the
\* last giving the value returned.
C21_StateOwnedBySection ==
    [][ /\ bench'.filter = "Notch" =>
              /\ UNCHANGED <<eeg_z, ecg_z>>
              /\ Threaded(NotchSections, notch_z, bench'.in, notch_z', bench'.out)
        /\ bench'.filter = "EEGFilter" =>
              /\ UNCHANGED <<notch_z, ecg_z>>
              /\ Threaded(EEGSections, eeg_z, bench'.in, eeg_z', bench'.out)
        /\ bench'.filter = "ECGFilter" =>
              /\ UNCHANGED <<notch_z, eeg_z>>
              /\ Threaded(ECGSections, ecg_z, bench'.in, ecg_z', bench'.out)
      ]_vars

\* ECGFilter called when all three filters hold a non-zero state, on a
\* non-zero input, its sections holding different states
C21_Witness ==
    /\ bench.filter = "ECGFilter"
    /\ bench.in # 0
    /\ notch_z[1][1] # 0 /\ notch_z[2][1] # 0
    /\ eeg_z[1][1] # 0
    /\ ecg_z[1][2] # 0
    /\ ecg_z[1] # ecg_z[2]
    /\ ecg_z[3] # ecg_z[4]

(***************************************************************************)
(* Properties of the bit-reverse permutation (SpecReverse).                *)
(***************************************************************************)
\* i with its w lowest bits in the opposite order
RECURSIVE BitReversal(_, _)
BitReversal(i, w) ==
    IF w = 0 THEN 0
    ELSE (i % 2) * Pow2(w - 1) + BitReversal(i \div 2, w - 1)

\* the loop over a buffer of size n is complete, every index it used was in
\* 0 .. n-1, slot i holds what slot rev(i) held for rev the reversal of
\* log2(n) bits, rev is its own inverse, and the swaps made are one for
\* each pair {i, rev(i)} with i # rev(i)
IsBitReversalOf(n) ==
    LET rev(i) == BitReversal(i, Log2(n))
    IN  /\ ~bench.outside
        /\ \A i \in 0..(n - 1) :
              /\ rev(i) \in 0..(n - 1)
              /\ rev(rev(i)) = i
              /\ bench.block[2 * i] = 2 * rev(i)
              /\ bench.block[2 * i + 1] = 2 * rev(i) + 1
        /\ \A s \in (2 * n)..(2 * FFT_SIZE - 1) : bench.block[s] = s
        /\ 2 * bench.swaps = Cardinality({i \in 0..(n - 1) : rev(i) # i})

C23_OtherAccessesWithinBounds ==
    /\ sampleIndex \in 0..(FFT_SIZE - 1)
    /\ serial.fft => (analysis.at - 1) \in DOMAIN inputBuffer
    /\ 2 * (FFT_SIZE - 1) + 1 \in 0..(2 * FFT_SIZE - 1)
    /\ 2 * (FFT_SIZE \div 2 - 1) + 1 \in DOMAIN fftOutputBuffer
    /\ FFT_SIZE \div 2 - 1 \in DOMAIN powerSpectrum

\* C23: every array access of a tick and of an analysis is inside the
\* array: inputBuffer at 0 .. 255, powerSpectrum at 0 .. 127, fftInput at
\* 0 .. 511, and every index at which simpleFFT stores into its output,
\* called with n = 256, is below the 256 elements of fftOutputBuffer.
C23_AccessesWithinBounds ==
    /\ C23_OtherAccessesWithinBounds
    /\ analysis.n > 0 => analysis.lastStore \in DOMAIN fftOutputBuffer

(***************************************************************************)
(* Properties of the sample scheduler (SpecSched, SpecBlock).              *)
(***************************************************************************)
\* a 32-bit pattern read as long
Signed(t) == IF t[1] >= 32768 THEN (t[1] - 65536) * 65536 + t[2]
             ELSE t[1] * 65536 + t[2]

\* C24: after every iteration timer is the ticks fired so far times the
\* period of 8000 microseconds less the microseconds elapsed since start;
\* an iteration fires at most one tick, and fires one exactly when the
\* decremented timer is negative; as long as no iteration started more
\* than a period after the one before, timer is in 0 .. 7999.
C24_SchedulerNeverLosesATick ==
    /\ Signed(timer) = ticks * 8000 - Micros(env.read)
    /\ ticks <= loops
    /\ serial.tick => Signed(timer) < 8000
    /\ (loops > 0 /\ ~serial.tick) => Signed(timer) >= 0
    /\ env.overruns = 0 => (Signed(timer) >= 0 /\ Signed(timer) < 8000)

\* the same, as long as no block has been analysed
C24_HoldsBeforeFirstAnalysis ==
    analysis.n = 0 => C24_SchedulerNeverLosesATick

\* an iteration that starts with a deficit fires a tick: after an overrun
\* ticks fire on consecutive iterations until timer is no longer negative
C24_DeficitIsRepaid ==
    [][ (analysis.n = 0 /\ Signed(timer) < 0) =>
            (serial'.tick /\ ticks' = ticks + 1
             /\ Signed(timer') = Signed(timer) + 8000
                                     - Micros(Sub32(env'.read, env.read))) ]_vars

(***************************************************************************)
(* Properties of the detector's first cycle (SpecDet).                     *)
(***************************************************************************)
\* C25: each of the first 16 calls finds mean 0, deviation 0 and data 0 at
\* the cursor, so it flags its sample exactly when the sample is above 0,
\* and stores the sample itself whether flagged or not; while the input
\* has been 0 throughout, no sample is flagged.
C25_ColdStart ==
    /\ (call.n >= 1 /\ call.n <= 16) =>
          /\ call.mean = 0
          /\ call.sd = 0
          /\ call.old = 0
          /\ peak <=> call.sample > 0
          /\ stored[call.slot].data[call.slot] = call.sample
          /\ data_buffer[call.slot] = call.sample
    /\ env.ecg = 0 => (counts.peaks = 0 /\ ~peak)

\* within the first 16 calls: a sample below 0, not flagged, after a sample
\* above 0 that was flagged and stored as it was
C25_Witness ==
    /\ call.n >= 2 /\ call.n <= 16
    /\ call.sample < 0
    /\ ~peak
    /\ counts.peaks >= 1
    /\ \E c \in Slots : data_buffer[c] > 0

(***************************************************************************)
(* Properties of the smoothed powers (SpecSmooth, SpecBlock).              *)
(***************************************************************************)
BandsOf(p) == p.delta + p.theta + p.alpha + p.beta + p.gamma

\* C26 as stated: after any number of blocks the six smoothed values are
\* not negative and the five smoothed band powers together do not exceed
\* the smoothed total.
C26_SmoothedBandsWithinTotal ==
    /\ \A f \in Fields : smoothedPowers[f] >= 0
    /\ BandsOf(smoothedPowers) <= smoothedPowers.total

\* C26: after any number of blocks the six smoothed values are not
\* negative, and the five smoothed band powers together do not exceed the
\* smoothed total by more than the rounding of the six values allows: each
\* is within one unit of its unrounded value, so the excess is at most
\* five units whatever the size of the powers.
C26_SmoothedBandsWithinTotalUpToRounding ==
    /\ \A f \in Fields : smoothedPowers[f] >= 0
    /\ BandsOf(smoothedPowers) <= smoothedPowers.total + 5

\* blocks without power outside the bands followed by blocks of silence:
\* the smoothed bands together are above the smoothed total
C26_Witness ==
    /\ bench.n >= 3
    /\ bench.raw = RawAt(0)
    /\ \A f \in Fields : smoothedPowers[f] > 0
    /\ BandsOf(smoothedPowers) > smoothedPowers.total

(***************************************************************************)
(* Properties of the time differences across the wrap-around (SpecWrap).   *)
(***************************************************************************)
\* C27: the interval an iteration computes is the time since the iteration
\* before, and the RR interval of a peak-flagged tick is the time since the
\* peak-flagged tick before it, also when the counter has passed 2^32 in
\* between; such an interval is reported exactly when the time is within
\* 400 .. 2000 ms, as that time.
C27_DifferencesSurviveTheWrap ==
    /\ loops > WrapTicks =>
          /\ env.interval[1] < 32768
          /\ Micros(env.interval) = env.elapsed
    /\ (serial.tick /\ serial.peak /\ counts.peaks >= 2) =>
          /\ currentRRInterval[1] < 32768
          /\ Micros(currentRRInterval) = peakClock.gap
          /\ (serial.rr # <<>>) <=>
                (peakClock.gap >= 400000 /\ peakClock.gap <= 2000000)
          /\ serial.rr # <<>> => serial.rr[1] = (peakClock.gap + 5) \div 10

\* two peak-flagged ticks 800 ms apart, the first before the counter passed
\* 2^32 and the second after, the interval reported as 800.00 ms
C27_Witness ==
    /\ serial.tick /\ serial.peak /\ counts.peaks >= 2
    /\ peakClock.wrapped
    /\ env.wrapped
    /\ peakClock.gap = 800000
    /\ serial.rr = <<80000>>
    /\ ~Geq32(micros, WrapTime)

(***************************************************************************)
(* Properties of one Getpeak call (SpecPeak, SpecDet).                     *)
(***************************************************************************)
\* the three buffers are as they were at every slot but c
OnlySlotChanged(c) ==
    \A i \in Slots \ {c} :
        /\ data_buffer'[i] = data_buffer[i]
        /\ mean_buffer'[i] = mean_buffer[i]
        /\ standard_deviation_buffer'[i] = standard_deviation_buffer[i]

\* C28: a Getpeak call with the cursor at c leaves the three buffers as
\* they were at the 15 other slots, moves the cursor to the next slot, and
\* changes no filter state, nothing of the block buffer, no smoothed power
\* and nothing of the RR state.
C28_GetpeakFrame ==
    [][ bench'.filter = "Getpeak" =>
            /\ OnlySlotChanged(data_index)
            /\ data_index' = (data_index + 1) % 16
            /\ UNCHANGED <<ecg_z, notch_z, eeg_z>>
            /\ UNCHANGED <<inputBuffer, sampleIndex, bufferReady>>
            /\ UNCHANGED smoothedPowers
            /\ UNCHANGED <<lastPeakTime, firstPeak, currentRRInterval>>
      ]_vars

\* within loop(), as long as no block has been analysed: a tick leaves the
\* three buffers as they were at every slot but the cursor's, and an
\* iteration that is not a tick leaves them as they were
C28_OtherSlotsKeptInLoop ==
    [][ analysis'.n = 0 =>
            IF ticks' # ticks THEN OnlySlotChanged(data_index)
            ELSE UNCHANGED <<data_buffer, mean_buffer,
                             standard_deviation_buffer, data_index, peak>>
      ]_vars

\* a call that changed all three buffers at the cursor while other slots
\* and the filter held non-zero values
C28_Witness ==
    /\ bench.filter = "Getpeak"
    /\ data_index >= 3
    /\ data_buffer[data_index - 1] # 0
    /\ mean_buffer[data_index - 1] # 0
    /\ standard_deviation_buffer[data_index - 1] # 0
    /\ data_buffer[0] # 0
    /\ mean_buffer[0] # mean_buffer[data_index - 1]
    /\ ecg_z[1][1] # 0

(***************************************************************************)
(* Properties of RealTimeEEGAnalyzer (SpecAnalyzer).                       *)
(***************************************************************************)
\* C29: dataBuffer never holds more than 128 samples; it holds the last
\* min(received, 128) samples passed in since the construction or the last
\* reset, oldest first; a call made while fewer than 128 have been passed
\* in returns isValid = false, all-zero bands and samplesProcessed = the
\* length of the buffer; reset leaves the buffer empty.
C29_BufferHoldsTheLatestSamples ==
    LET len == Len(analyzer.dataBuffer)
        kept == IF analyzer.received < 128 THEN analyzer.received ELSE 128
    IN  /\ len <= 128
        /\ len = kept
        /\ \A j \in 1..len :
              analyzer.dataBuffer[j] =
                  ((analyzer.arrived - len + j) % 1024) - 512
        /\ (analyzer.op = "analyzeEEGData" /\ analyzer.received < 128) =>
              /\ analyzer.result.isValid = FALSE
              /\ \A b \in Bands : analyzer.result.bands[b] = 0
              /\ analyzer.result.samplesProcessed = len
        /\ analyzer.op = "reset" => (len = 0 /\ analyzer.received = 0)

\* after a full buffer and a reset, 127 samples passed in: the call returns
\* isValid = false and the buffer holds those 127 samples
C29_Witness ==
    /\ analyzer.op = "analyzeEEGData"
    /\ analyzer.resets = 1
    /\ analyzer.arrived >= 128 + 127
    /\ analyzer.received = 127
    /\ Len(analyzer.dataBuffer) = 127
    /\ ~analyzer.result.isValid
    /\ analyzer.result.samplesProcessed = 127

(***************************************************************************)
(* Properties of RealTimeStressProcessor.detectECGPeak (SpecProcessor).    *)
(***************************************************************************)
\* C30: rrIntervals holds at most 8 entries, a ninth pushes the oldest out;
\* every entry lies in [300, 1200] ms; lastPeakTime is not updated less
\* than 200 ms after the peak accepted before, nor during the first 100
\* samples, while learningMode is true; and the first accepted peak adds no
\* RR interval.
C30_PeakAcceptance ==
    [][LET rr == processor.rrIntervals
           rr1 == processor'.rrIntervals
           accepted == processor'.lastPeakTime # processor.lastPeakTime
           gap == processor'.now - processor.lastPeakTime
       IN  /\ Len(rr1) <= 8
           /\ \A j \in 1..Len(rr1) : rr1[j] >= 300 /\ rr1[j] <= 1200
           /\ rr1 # rr =>
                 /\ accepted
                 /\ rr1 = IF Len(rr) < 8 THEN Append(rr, gap)
                                         ELSE Append(Tail(rr), gap)
           /\ accepted =>
                 /\ processor'.lastPeakTime = processor'.now
                 /\ gap >= 200
                 /\ ~processor'.learningMode
                 /\ processor'.sampleCount > 100
                 /\ processor.lastPeakTime = 0 => rr1 = rr
           /\ processor'.sampleCount <= 100 =>
                 /\ processor'.learningMode
                 /\ ~accepted
                 /\ rr1 = <<>>
      ]_vars

\* eight intervals kept after a ninth pushed the oldest out, in a run where
\* a sample was skipped in the refractory period and a peak was accepted
\* whose interval was not
C30_Witness ==
    /\ Len(processor.rrIntervals) = 8
    /\ processor.shifted >= 1
    /\ processor.skipped >= 1
    /\ processor.rejected >= 1
    /\ processor.accepted >= 11

====
